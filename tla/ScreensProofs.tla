---------------------------- MODULE ScreensProofs ----------------------------
(***************************************************************************)
(* Proofs about what the screens and the API say of the stored data, for   *)
(* every set of detectors, plans and dates and every bound: ReadModel,     *)
(* the records page, the reminders and the dialog of Maintenance, the map  *)
(* page and the chart page.                                                *)
(***************************************************************************)
EXTENDS ReadModel, Records, PageSide, FiniteSetTheorems, SequenceTheorems, WellFoundedInduction, TLAPS

\* The state store holds what the snapshots hold, but for a cycle between its two
\* writes, and for what a restart has emptied.
FeedInv ==
    \A d \in Detectors :
        /\ snap[d] = NoReading => store[d] = NoReading
        /\ feed[d] # "rest" => snap[d] # NoReading
        /\ feed[d] = "stored" => store[d] = snap[d]
        /\ feed[d] = "rest" /\ store[d] # NoReading => store[d] = snap[d]

\* What a call has seen of a detector.
SeenListed(d, b) == \E x \in request.seen[d] : x.listed = b
SeenStatus(d, s) == \E x \in request.seen[d] : x.is.status = s
SeenAlarm(d, a) == \E x \in request.seen[d] : x.is.alarm = a

\* What has been read of the configuration still holds: a call of the GUI thread.
Fixed == request.T.conf = conf /\ request.T.points = Tables.points

Answered ==
    \A d \in Detectors :
        /\ SeenListed(d, d \in Lists(request.what, request.T, request.S))
        /\ d \in Lists(request.what, request.T, request.S) =>
              /\ SeenStatus(d, Says(request.what, request.T, request.S, d).status)
              /\ SeenAlarm(d, Says(request.what, request.T, request.S, d).alarm)

\* Each call, after each of its moments.
BigscreenInv ==
    \/ request.left = <<"dataset", "store">>
    \/ /\ request.left = <<"store">> /\ Fixed
       /\ \A d \in Detectors : SeenAlarm(d, UrgentOf(request.T.rows, d))
    \/ request.left = <<>> /\ Answered
MapInv ==
    \/ request.left = <<"dataset", "store", "missing">>
    \/ /\ request.left \in {<<"store", "missing">>, <<"missing">>} /\ Fixed
       /\ \A d \in Detectors : SeenAlarm(d, NewestOf(request.T.rows, d))
       /\ request.left = <<"missing">> =>
            \A d \in Detectors : request.S[d] # NoReading => SeenStatus(d, request.S[d])
    \/ request.left = <<>> /\ Answered
MonitorInv ==
    \/ request.left = <<"snapshots", "rows">>
    \/ /\ request.left = <<"rows">>
       /\ \A d \in Detectors : /\ SeenListed(d, d \in list_realtime(request.T.snap))
                               /\ SeenStatus(d, request.T.snap[d])
    \/ request.left = <<>> /\ Answered
AlarmsInv ==
    \/ request.left \in {<<"index", "store", "rows">>, <<"store", "rows">>}
    \/ /\ request.left = <<"rows">>
       /\ \A d \in Detectors : SeenStatus(d, request.S[d])
    \/ request.left = <<>> /\ Answered
DevicesInv ==
    \/ request.left \in {<<"index", "store">>, <<"store">>}
    \/ request.left = <<>> /\ Answered

Calls == {"bigscreen", "map", "monitor", "alarms", "devices"}
Datasets == [rows : Seq([det : Detectors, type : AlarmTypes, active : BOOLEAN]),
             conf : [Detectors -> [on : BOOLEAN, live : BOOLEAN]],
             points : SUBSET Detectors, priority : BOOLEAN,
             snap : [Detectors -> Statuses \union {NoReading}]]
Readings_ == [Detectors -> Statuses \union {NoReading}]
IsCall(r) == r \in [what : Calls, left : {r.left}, T : Datasets, S : Readings_,
                    races : {r.races}, seen : {r.seen}]

RequestInv ==
    request # NoRequest =>
        /\ IsCall(request)
        /\ \A w \in Calls : request.what = w =>
              \A d \in Detectors : Truths(w, d) \subseteq request.seen[d]
        /\ request.what = "bigscreen" => BigscreenInv
        /\ request.what = "map" => MapInv
        /\ request.what = "monitor" => MonitorInv
        /\ request.what = "alarms" => AlarmsInv
        /\ request.what = "devices" => DevicesInv
-----------------------------------------------------------------------------
\* A status is not the absence of a reading, and no request is not a request.
LEMMA StatusIsReading == NoReading \notin Statuses
BY DEF NoReading, Statuses, AlarmTypes, Urgency, ToSet

LEMMA WrittenKeeps ==
    ASSUME Written PROVE request = NoRequest => request' = request
BY DEF Written

\* The writes of a cycle, one by one.
LEMMA PersistInv ==
    ASSUME ReadTypeOK, FeedInv, NEW d \in Detectors, NEW s \in Readings[d], Persist(d, s)
    PROVE  ReadTypeOK' /\ FeedInv'
<1>1. s \in Statuses
  BY ReadAssumption
<1>2. /\ snap' = [snap EXCEPT ![d] = s] /\ feed' = [feed EXCEPT ![d] = "persisted"]
      /\ UNCHANGED <<rows, conf, points, mapOn, priority, store>>
  BY DEF Persist
<1>3. snap' \in [Detectors -> Statuses \union {NoReading}]
      /\ feed' \in [Detectors -> {"rest", "persisted", "stored"}]
  BY <1>1, <1>2 DEF ReadTypeOK
<1>4. ReadTypeOK'
  BY <1>2, <1>3 DEF ReadTypeOK
<1>5. FeedInv'
  BY <1>1, <1>2, StatusIsReading DEF FeedInv, ReadTypeOK
<1>6. QED
  BY <1>4, <1>5

LEMMA UpdateInv ==
    ASSUME ReadTypeOK, FeedInv, NEW d \in Detectors, UpdateReadings(d)
    PROVE  ReadTypeOK' /\ FeedInv'
<1>1. /\ feed[d] = "persisted"
      /\ store' = [store EXCEPT ![d] = snap[d]] /\ feed' = [feed EXCEPT ![d] = "stored"]
      /\ UNCHANGED <<rows, conf, points, mapOn, priority, snap>>
  BY DEF UpdateReadings, tables
<1>2. store' \in [Detectors -> Statuses \union {NoReading}]
      /\ feed' \in [Detectors -> {"rest", "persisted", "stored"}]
  BY <1>1 DEF ReadTypeOK
<1>3. ReadTypeOK'
  BY <1>1, <1>2 DEF ReadTypeOK
<1>4. FeedInv'
  BY <1>1 DEF FeedInv, ReadTypeOK
<1>5. QED
  BY <1>3, <1>4

AlarmRow == [det : Detectors, type : AlarmTypes, active : BOOLEAN]

\* The rows after an ingested reading.
LEMMA RecoveredRows ==
    ASSUME ReadTypeOK, NEW d, NEW s
    PROVE  /\ RecoverOthers(d, s) \in Seq(AlarmRow) /\ Len(RecoverOthers(d, s)) = Len(rows)
           /\ \A i \in DOMAIN rows :
                 /\ RecoverOthers(d, s)[i].det = rows[i].det
                 /\ RecoverOthers(d, s)[i].type = rows[i].type
<1>1. rows \in Seq(AlarmRow)
  BY DEF ReadTypeOK, AlarmRow
<1>2. \A i \in DOMAIN rows : rows[i] \in AlarmRow
  BY <1>1
<1>3. ASSUME NEW r \in AlarmRow PROVE
        /\ [r EXCEPT !.active = FALSE] \in AlarmRow
        /\ [r EXCEPT !.active = FALSE].det = r.det /\ [r EXCEPT !.active = FALSE].type = r.type
  BY DEF AlarmRow
<1>4. /\ DOMAIN RecoverOthers(d, s) = DOMAIN rows
      /\ RecoverOthers(d, s) = [i \in DOMAIN rows |-> RecoverOthers(d, s)[i]]
      /\ \A i \in DOMAIN rows : \/ RecoverOthers(d, s)[i] = rows[i]
                                \/ RecoverOthers(d, s)[i] = [rows[i] EXCEPT !.active = FALSE]
  BY DEF RecoverOthers
<1>5. \A i \in DOMAIN rows :
         /\ RecoverOthers(d, s)[i] \in AlarmRow
         /\ RecoverOthers(d, s)[i].det = rows[i].det /\ RecoverOthers(d, s)[i].type = rows[i].type
  BY <1>2, <1>3, <1>4
<1>6. RecoverOthers(d, s) \in Seq(AlarmRow) /\ Len(RecoverOthers(d, s)) = Len(rows)
  BY <1>1, <1>4, <1>5
<1>7. QED
  BY <1>5, <1>6

LEMMA IngestInv ==
    ASSUME ReadTypeOK, FeedInv, NEW d \in Detectors, Ingest(d)
    PROVE  ReadTypeOK' /\ FeedInv'
<1>1. /\ feed[d] = "stored" /\ feed' = [feed EXCEPT ![d] = "rest"]
      /\ UNCHANGED <<conf, points, mapOn, priority, snap, store>>
  BY DEF Ingest
<1>2. rows' \in Seq(AlarmRow)
  <2>1. OpensRow(d, snap[d]) => snap[d] \in AlarmTypes
    BY DEF OpensRow
  <2>2. rows \in Seq(AlarmRow) /\ RecoverOthers(d, snap[d]) \in Seq(AlarmRow)
    BY RecoveredRows DEF ReadTypeOK, AlarmRow
  <2>3. OpensRow(d, snap[d]) => [det |-> d, type |-> snap[d], active |-> TRUE] \in AlarmRow
    BY <2>1 DEF AlarmRow
  <2>4. \/ rows' = rows \/ rows' = RecoverOthers(d, snap[d])
        \/ /\ OpensRow(d, snap[d])
           /\ rows' = Append(RecoverOthers(d, snap[d]), [det |-> d, type |-> snap[d], active |-> TRUE])
    BY DEF Ingest
  <2>5. QED
    BY <2>2, <2>3, <2>4, SMTT(30)
<1>3. feed' \in [Detectors -> {"rest", "persisted", "stored"}]
  BY <1>1 DEF ReadTypeOK
<1>4. ReadTypeOK'
  BY <1>1, <1>2, <1>3 DEF ReadTypeOK, AlarmRow
<1>5. FeedInv'
  BY <1>1 DEF FeedInv, ReadTypeOK
<1>6. QED
  BY <1>4, <1>5

LEMMA EditInv ==
    ASSUME ReadTypeOK, FeedInv, Edit PROVE ReadTypeOK' /\ FeedInv'
<1>1. CASE EditMap
  BY <1>1 DEF EditMap, ReadTypeOK, FeedInv
<1>2. CASE Restart
  BY <1>2 DEF Restart, tables, ReadTypeOK, FeedInv
<1>3. ASSUME NEW d \in Detectors, EditDetector(d) PROVE ReadTypeOK' /\ FeedInv'
  <2>1. conf' \in [Detectors -> [on : BOOLEAN, live : BOOLEAN]]
    <3>1. conf[d] \in [on : BOOLEAN, live : BOOLEAN] /\ (~ conf[d].on) \in BOOLEAN
      BY DEF ReadTypeOK
    <3>2. \A c \in [on : BOOLEAN, live : BOOLEAN], b \in BOOLEAN :
             [c EXCEPT !.on = b] \in [on : BOOLEAN, live : BOOLEAN]
             /\ [c EXCEPT !.live = b] \in [on : BOOLEAN, live : BOOLEAN]
      OBVIOUS
    <3>3. \E c \in [on : BOOLEAN, live : BOOLEAN] : conf' = [conf EXCEPT ![d] = c]
      <4>1. \/ conf' = [conf EXCEPT ![d] = [conf[d] EXCEPT !.on = ~ conf[d].on]]
            \/ conf' = [conf EXCEPT ![d] = [conf[d] EXCEPT !.live = FALSE]]
        BY <1>3 DEF EditDetector
      <4>2. QED
        BY <3>1, <3>2, <4>1
    <3>4. QED
      BY <3>3 DEF ReadTypeOK
  <2>2. QED
    BY <1>3, <2>1 DEF EditDetector, ReadTypeOK, FeedInv
<1>4. ASSUME NEW d \in Detectors, EditPoint(d) PROVE ReadTypeOK' /\ FeedInv'
  BY <1>4 DEF EditPoint, ReadTypeOK, FeedInv
<1>5. QED
  BY <1>1, <1>2, <1>3, <1>4 DEF Edit

\* A request reads, and changes nothing of what it reads.
LEMMA MomentLeaves ==
    ASSUME Moment \/ EndRequest \/ \E what \in DOMAIN MomentsOf : Ask(what)
    PROVE  UNCHANGED <<tables, store, feed, edits>>
BY DEF Moment, ReadDataset, ReadStore, ReadNoneMissing, ReadSnapshots, ReadRows, ReadIndex,
       ReadMissing, Reads, EndRequest, Ask

LEMMA FeedStep ==
    ASSUME ReadTypeOK, FeedInv, [ReadNext]_readVars PROVE ReadTypeOK' /\ FeedInv'
<1>1. CASE UNCHANGED <<tables, store, feed, edits>>
  BY <1>1 DEF tables, ReadTypeOK, FeedInv
<1>2. CASE \E d \in Detectors : Feed(d)
  BY <1>2, PersistInv, UpdateInv, IngestInv DEF Feed
<1>3. QED
  BY <1>1, <1>2, EditInv, MomentLeaves DEF ReadNext, readVars
-----------------------------------------------------------------------------
(* What a call has seen, whatever was written meanwhile.                   *)

LEMMA CallIsRequest == ASSUME NEW r, IsCall(r) PROVE r # NoRequest
BY DEF IsCall, NoRequest, Calls

Wrote(q, r, n, f) == q = [r EXCEPT !.races = n, !.seen = f]
Read(q, r, T, S, l) == q = [r EXCEPT !.T = T, !.S = S, !.left = l]

LEMMA CallWritten ==
    ASSUME NEW r, IsCall(r), NEW n, NEW f, NEW q, Wrote(q, r, n, f)
    PROVE  /\ IsCall(q) /\ q.what = r.what /\ q.left = r.left /\ q.T = r.T /\ q.S = r.S
           /\ q.seen = f
BY DEF IsCall, Wrote

LEMMA CallRead ==
    ASSUME NEW r, IsCall(r), NEW T, NEW S, NEW l, NEW q,
           Read(q, r, T, S, l)
    PROVE  /\ q.what = r.what /\ q.left = l /\ q.T = T /\ q.S = S /\ q.seen = r.seen
           /\ T \in Datasets /\ S \in Readings_ => IsCall(q)
BY DEF IsCall, Read

\* The writers leave the call its moments; what the GUI thread reads of the
\* configuration nobody changes during a call of its own.
WroteOn ==
    /\ request' # NoRequest /\ IsCall(request')
    /\ request'.what = request.what /\ request'.left = request.left
    /\ request'.T = request.T /\ request'.S = request.S
    /\ request.what \notin ApiCalls => UNCHANGED <<conf, points, mapOn>>
    /\ \A d \in Detectors : request.seen[d] \subseteq request'.seen[d]
    /\ \A w \in Calls : request.what = w =>
          \A d \in Detectors : Truths(w, d)' \subseteq request'.seen[d]

LEMMA WrittenOn ==
    ASSUME RequestInv, Written, request # NoRequest,
           request.what \notin ApiCalls => UNCHANGED <<conf, points, mapOn>>
    PROVE  WroteOn
<1>1. PICK w \in {request.what} :
          request' = [request EXCEPT !.races = @ + 1,
                         !.seen = [d \in Detectors |-> @[d] \union Truths(w, d)']]
  BY DEF Written
<1>2. w = request.what /\ IsCall(request)
  BY <1>1 DEF RequestInv
<1> DEFINE f == [d \in Detectors |-> request.seen[d] \union Truths(w, d)']
<1>3. Wrote(request', request, request.races + 1, f)
  BY <1>1 DEF Wrote
<1>4. /\ IsCall(request') /\ request'.what = request.what /\ request'.left = request.left
      /\ request'.T = request.T /\ request'.S = request.S /\ request'.seen = f
  <2> HIDE DEF f
  <2> QED BY <1>2, <1>3, CallWritten
<1>5. \A d \in Detectors : /\ request.seen[d] \subseteq request'.seen[d]
                           /\ Truths(w, d)' \subseteq request'.seen[d]
  BY <1>4
<1>6. request' # NoRequest
  BY <1>4, CallIsRequest
<1>7. QED
  BY <1>2, <1>4, <1>5, <1>6 DEF WroteOn

\* So nothing that a call has found out is lost by what is written meanwhile.
LEMMA WroteAnswered == ASSUME WroteOn, Answered PROVE Answered'
BY DEF WroteOn, Answered, SeenListed, SeenStatus, SeenAlarm

LEMMA WroteFixed == ASSUME WroteOn, Fixed, request.what \notin ApiCalls PROVE Fixed'
BY DEF WroteOn, Fixed, Tables

LEMMA StageKeeps ==
    ASSUME RequestInv, request # NoRequest, WroteOn PROVE RequestInv'
<1>1. request'.what = request.what /\ request'.left = request.left /\ request'.T = request.T
      /\ request'.S = request.S /\ IsCall(request')
  BY DEF WroteOn
<1>2. ASSUME NEW w \in Calls, request'.what = w, NEW d \in Detectors
      PROVE  Truths(w, d)' \subseteq request'.seen[d]
  BY <1>1, <1>2 DEF WroteOn
<1>3. ASSUME request.what = "bigscreen" PROVE BigscreenInv'
  <2>1. BigscreenInv /\ request.what \notin ApiCalls
    BY <1>3 DEF RequestInv, ApiCalls
  <2>2. QED
    BY <1>1, <2>1, WroteAnswered, WroteFixed DEF BigscreenInv, SeenAlarm, WroteOn
<1>4. ASSUME request.what = "map" PROVE MapInv'
  <2>1. MapInv /\ request.what \notin ApiCalls
    BY <1>4 DEF RequestInv, ApiCalls
  <2>2. QED
    BY <1>1, <2>1, WroteAnswered, WroteFixed DEF MapInv, SeenAlarm, SeenStatus, WroteOn
<1>5. ASSUME request.what = "monitor" PROVE MonitorInv'
  <2>1. MonitorInv
    BY <1>5 DEF RequestInv
  <2>2. QED
    BY <1>1, <2>1, WroteAnswered DEF MonitorInv, SeenListed, SeenStatus, WroteOn
<1>6. ASSUME request.what = "alarms" PROVE AlarmsInv'
  <2>1. AlarmsInv
    BY <1>6 DEF RequestInv
  <2>2. QED
    BY <1>1, <2>1, WroteAnswered DEF AlarmsInv, SeenStatus, WroteOn
<1>7. ASSUME request.what = "devices" PROVE DevicesInv'
  <2>1. DevicesInv
    BY <1>7 DEF RequestInv
  <2>2. QED
    BY <1>1, <2>1, WroteAnswered DEF DevicesInv
<1>8. QED
  BY <1>1, <1>2, <1>3, <1>4, <1>5, <1>6, <1>7 DEF RequestInv

\* The cycles and the administrator are writers.
LEMMA WriteStep ==
    ASSUME RequestInv, Edit \/ \E d \in Detectors : Feed(d) PROVE RequestInv'
<1>1. CASE Restart
  BY <1>1 DEF Restart, RequestInv
<1>2. CASE ~ Restart
  <2>1. Written
    BY <1>2 DEF Edit, EditMap, EditDetector, EditPoint, Feed, Persist, UpdateReadings, Ingest
  <2>2. request # NoRequest =>
          (request.what \notin ApiCalls => UNCHANGED <<conf, points, mapOn>>)
    BY <1>2 DEF Edit, EditMap, EditDetector, EditPoint, MayEdit, Feed, Persist, UpdateReadings,
                Ingest, tables
  <2>3. CASE request = NoRequest
    BY <2>1, <2>3, WrittenKeeps DEF RequestInv
  <2>4. CASE request # NoRequest
    BY <2>1, <2>2, <2>4, WrittenOn, StageKeeps
  <2>5. QED
    BY <2>3, <2>4
<1>3. QED
  BY <1>1, <1>2
-----------------------------------------------------------------------------
(* The moments of a call.                                                  *)

\* What is true now has been seen.
LEMMA SeesNow ==
    ASSUME RequestInv, request # NoRequest, NEW w \in Calls, request.what = w,
           NEW d \in Detectors, NEW S \in Sources(w)
    PROVE  /\ SeenListed(d, d \in Lists(w, Tables, S))
           /\ SeenStatus(d, Says(w, Tables, S, d).status)
           /\ SeenAlarm(d, Says(w, Tables, S, d).alarm)
<1> DEFINE x == [listed |-> d \in Lists(w, Tables, S), is |-> Says(w, Tables, S, d)]
<1>1. x \in Truths(w, d)
  BY DEF Truths
<1>2. x \in request.seen[d]
  BY <1>1 DEF RequestInv
<1>3. x.listed = (d \in Lists(w, Tables, S)) /\ x.is = Says(w, Tables, S, d)
  OBVIOUS
<1>4. QED
  <2> HIDE DEF x
  <2> QED BY <1>2, <1>3 DEF SeenListed, SeenStatus, SeenAlarm

LEMMA TablesAreDataset == ASSUME ReadTypeOK PROVE Tables \in Datasets
BY DEF ReadTypeOK, Tables, Datasets

\* A read takes part of the tables or the readings, and moves on.
LEMMA ReadsCall ==
    ASSUME RequestInv, request # NoRequest, NEW T \in Datasets, NEW S \in Readings_, Reads(T, S)
    PROVE  /\ IsCall(request') /\ request'.what = request.what
           /\ request'.left = Tail(request.left) /\ request'.T = T /\ request'.S = S
           /\ request'.seen = request.seen
           /\ \A w \in Calls : request'.what = w =>
                 \A d \in Detectors : Truths(w, d)' \subseteq request'.seen[d]
<1>1. Read(request', request, T, S, Tail(request.left))
  BY DEF Reads, Read
<1>2. IsCall(request)
  BY DEF RequestInv
<1>3. /\ request'.what = request.what /\ request'.left = Tail(request.left)
      /\ request'.T = T /\ request'.S = S /\ request'.seen = request.seen /\ IsCall(request')
  BY <1>1, <1>2, CallRead
<1>4. ASSUME NEW w \in Calls, NEW d \in Detectors PROVE Truths(w, d)' = Truths(w, d)
  BY DEF Reads, tables, Truths, Tables, Sources
<1>5. QED
  BY <1>3, <1>4 DEF RequestInv

LEMMA Tails ==
    /\ Tail(<<"dataset", "store">>) = <<"store">> /\ Tail(<<"store">>) = <<>>
    /\ Tail(<<"dataset", "store", "missing">>) = <<"store", "missing">>
    /\ Tail(<<"store", "missing">>) = <<"missing">> /\ Tail(<<"missing">>) = <<>>
    /\ Tail(<<"snapshots", "rows">>) = <<"rows">> /\ Tail(<<"rows">>) = <<>>
    /\ Tail(<<"index", "store", "rows">>) = <<"store", "rows">>
    /\ Tail(<<"store", "rows">>) = <<"rows">>
    /\ Tail(<<"index", "store">>) = <<"store">>
OBVIOUS

LEMMA Heads ==
    /\ Head(<<"dataset", "store">>) = "dataset" /\ Head(<<"store">>) = "store"
    /\ Head(<<"dataset", "store", "missing">>) = "dataset"
    /\ Head(<<"store", "missing">>) = "store" /\ Head(<<"missing">>) = "missing"
    /\ Head(<<"snapshots", "rows">>) = "snapshots" /\ Head(<<"rows">>) = "rows"
    /\ Head(<<"index", "store", "rows">>) = "index"
    /\ Head(<<"store", "rows">>) = "store" /\ Head(<<"index", "store">>) = "index"
OBVIOUS

\* Where a call is when its next moment is m.
LEMMA Whereabouts ==
    ASSUME RequestInv, request # NoRequest, request.left # <<>>
    PROVE  /\ IsCall(request) /\ request.what \in Calls
           /\ request.what = "bigscreen" =>
                request.left \in {<<"dataset", "store">>, <<"store">>} /\ BigscreenInv
           /\ request.what = "map" => /\ MapInv
                /\ request.left \in {<<"dataset", "store", "missing">>, <<"store", "missing">>, <<"missing">>}
           /\ request.what = "monitor" =>
                request.left \in {<<"snapshots", "rows">>, <<"rows">>} /\ MonitorInv
           /\ request.what = "alarms" => /\ AlarmsInv
                /\ request.left \in {<<"index", "store", "rows">>, <<"store", "rows">>, <<"rows">>}
           /\ request.what = "devices" =>
                request.left \in {<<"index", "store">>, <<"store">>} /\ DevicesInv
BY DEF RequestInv, IsCall, BigscreenInv, MapInv, MonitorInv, AlarmsInv, DevicesInv

LEMMA DatasetInv ==
    ASSUME ReadTypeOK, RequestInv, ReadDataset PROVE RequestInv'
<1>1. /\ request # NoRequest /\ request.left # <<>> /\ Head(request.left) = "dataset"
      /\ Reads(Tables, request.S)
  BY DEF ReadDataset, At
<1>2. IsCall(request) /\ request.S \in Readings_
  BY <1>1, Whereabouts DEF IsCall
<1>3. /\ IsCall(request') /\ request'.what = request.what
      /\ request'.left = Tail(request.left) /\ request'.T = Tables /\ request'.S = request.S
      /\ request'.seen = request.seen
      /\ \A w \in Calls : request'.what = w =>
            \A d \in Detectors : Truths(w, d)' \subseteq request'.seen[d]
  BY <1>1, <1>2, TablesAreDataset, ReadsCall
<1>4. Fixed'
  <2>1. UNCHANGED <<conf, mapOn, points>>
    BY <1>1 DEF Reads, tables
  <2>2. QED
    BY <1>3, <2>1 DEF Fixed, Tables
<1>5. \/ request.what = "bigscreen" /\ request'.left = <<"store">>
      \/ request.what = "map" /\ request'.left = <<"store", "missing">>
  BY <1>1, <1>3, Whereabouts, Heads, Tails DEF Calls
<1>6. CASE request.what = "bigscreen"
  <2>1. ASSUME NEW d \in Detectors PROVE SeenAlarm(d, UrgentOf(Tables.rows, d))
    BY <1>1, <1>6, SeesNow DEF Calls, Sources, Says, Card
  <2>2. BigscreenInv'
    BY <1>3, <1>4, <1>5, <1>6, <2>1 DEF BigscreenInv, SeenAlarm
  <2>3. QED
    BY <1>3, <1>6, <2>2 DEF RequestInv
<1>7. CASE request.what = "map"
  <2>1. ASSUME NEW d \in Detectors PROVE SeenAlarm(d, NewestOf(Tables.rows, d))
    BY <1>1, <1>7, SeesNow DEF Calls, Sources, Says, PointView
  <2>2. <<"store", "missing">> # <<"missing">>
    OBVIOUS
  <2>3. MapInv'
    BY <1>3, <1>4, <1>5, <1>7, <2>1, <2>2 DEF MapInv, SeenAlarm
  <2>4. QED
    BY <1>3, <1>7, <2>3 DEF RequestInv
<1>8. QED
  BY <1>5, <1>6, <1>7

LEMMA StoreInv ==
    ASSUME ReadTypeOK, RequestInv, ReadStore PROVE RequestInv'
<1>1. /\ request # NoRequest /\ request.left # <<>> /\ Head(request.left) = "store"
      /\ Reads(request.T, store)
  BY DEF ReadStore, At
<1>2. IsCall(request) /\ request.T \in Datasets /\ store \in Readings_
  BY <1>1, Whereabouts DEF IsCall, ReadTypeOK, Readings_
<1>3. /\ IsCall(request') /\ request'.what = request.what
      /\ request'.left = Tail(request.left) /\ request'.T = request.T /\ request'.S = store
      /\ request'.seen = request.seen
      /\ \A w \in Calls : request'.what = w =>
            \A d \in Detectors : Truths(w, d)' \subseteq request'.seen[d]
  BY <1>1, <1>2, ReadsCall
<1>4. UNCHANGED <<conf, mapOn, points, store>>
  BY <1>1 DEF Reads, tables
<1>5. \/ request.what = "bigscreen" /\ request.left = <<"store">> /\ request'.left = <<>>
      \/ request.what = "map" /\ request.left = <<"store", "missing">> /\ request'.left = <<"missing">>
      \/ request.what = "alarms" /\ request'.left = <<"rows">>
      \/ request.what = "devices" /\ request'.left = <<>>
  BY <1>1, <1>3, Whereabouts, Heads, Tails DEF Calls
<1>6. CASE request.what = "bigscreen"
  <2>1. /\ Fixed /\ \A d \in Detectors : SeenAlarm(d, UrgentOf(request.T.rows, d))
    <3>1. BigscreenInv /\ request.left = <<"store">>
      BY <1>1, <1>5, <1>6, Whereabouts
    <3>2. <<"store">> # <<"dataset", "store">> /\ <<"store">> # <<>>
      OBVIOUS
    <3>3. QED
      BY <3>1, <3>2 DEF BigscreenInv
  <2>2. ASSUME NEW d \in Detectors
        PROVE  /\ SeenListed(d, d \in Live(conf))
               /\ SeenStatus(d, StatusOf(store[d], Default(conf, d)))
    <3>1. Tables.conf = conf
      BY DEF Tables
    <3>2. QED
      BY <1>1, <1>6, <3>1, SeesNow DEF Calls, Sources, Lists, Says, Card, _device_cards
  <2>3. Answered'
    BY <1>3, <1>6, <2>1, <2>2 DEF Fixed, Answered, SeenListed, SeenStatus, SeenAlarm, Lists, Says,
       Card, _device_cards
  <2>4. BigscreenInv'
    BY <1>5, <1>6, <2>3 DEF BigscreenInv
  <2>5. QED
    BY <1>3, <1>6, <2>4 DEF RequestInv
<1>7. CASE request.what = "map"
  <2>1. /\ Fixed /\ \A d \in Detectors : SeenAlarm(d, NewestOf(request.T.rows, d))
    <3>1. MapInv /\ request.left = <<"store", "missing">>
      BY <1>1, <1>5, <1>7, Whereabouts
    <3>2. <<"store", "missing">> # <<"dataset", "store", "missing">> /\ <<"store", "missing">> # <<>>
      OBVIOUS
    <3>3. QED
      BY <3>1, <3>2 DEF MapInv
  <2>2. ASSUME NEW d \in Detectors, store[d] # NoReading PROVE SeenStatus(d, store[d])
    <3>1. Merged(store, snap)[d] = store[d]
      BY <2>2 DEF Merged, StatusOf
    <3>2. Says("map", Tables, Merged(store, snap), d).status = store[d]
      BY <2>2, <3>1 DEF Says, PointView, StatusOf
    <3>3. QED
      BY <1>1, <1>7, <3>2, SeesNow DEF Calls, Sources
  <2>3. Fixed'
    BY <1>3, <1>4, <2>1 DEF Fixed, Tables
  <2>4. MapInv'
    BY <1>3, <1>4, <1>5, <1>7, <2>1, <2>2, <2>3 DEF MapInv, SeenAlarm, SeenStatus
  <2>5. QED
    BY <1>3, <1>7, <2>4 DEF RequestInv
<1>8. CASE request.what = "alarms"
  <2>1. ASSUME NEW d \in Detectors PROVE SeenStatus(d, store[d])
    BY <1>1, <1>8, SeesNow DEF Calls, Sources, Says, _alarm_view
  <2>2. AlarmsInv'
    BY <1>3, <1>5, <1>8, <2>1 DEF AlarmsInv, SeenStatus
  <2>3. QED
    BY <1>3, <1>8, <2>2 DEF RequestInv
<1>9. CASE request.what = "devices"
  <2>1. ASSUME NEW d \in Detectors
        PROVE  /\ SeenListed(d, d \in list_realtime_devices(store, Statuses))
               /\ SeenStatus(d, store[d]) /\ SeenAlarm(d, NoAlarm)
    BY <1>1, <1>9, SeesNow DEF Calls, Sources, Lists, Says
  <2>2. Answered'
    BY <1>3, <1>9, <2>1 DEF Answered, SeenListed, SeenStatus, SeenAlarm, Lists, Says
  <2>3. DevicesInv'
    BY <1>5, <1>9, <2>2 DEF DevicesInv
  <2>4. QED
    BY <1>3, <1>9, <2>3 DEF RequestInv
<1>10. QED
  BY <1>5, <1>6, <1>7, <1>8, <1>9

LEMMA MissingInv ==
    ASSUME ReadTypeOK, RequestInv, NEW e \in Detectors, ReadMissing(e) PROVE RequestInv'
<1>1. /\ request # NoRequest /\ request.left # <<>> /\ Head(request.left) = "missing"
      /\ snap[e] # NoReading /\ UNCHANGED <<tables, store, feed, edits>>
      /\ request' = [request EXCEPT !.S[e] = snap[e]]
  BY DEF ReadMissing, At
<1> DEFINE S == [request.S EXCEPT ![e] = snap[e]]
<1>2. IsCall(request) /\ request.T \in Datasets /\ request.S \in Readings_
  BY <1>1, Whereabouts DEF IsCall
<1>3. S \in Readings_ /\ S[e] = snap[e] /\ \A d \in Detectors \ {e} : S[d] = request.S[d]
  BY <1>2 DEF Readings_, ReadTypeOK
<1>4. request' = [request EXCEPT !.T = request.T, !.S = S, !.left = request.left]
  BY <1>1, <1>2 DEF IsCall
<1>5. Read(request', request, request.T, S, request.left)
  BY <1>4 DEF Read
<1>6. /\ IsCall(request') /\ request'.what = request.what /\ request'.left = request.left
      /\ request'.T = request.T /\ request'.S = S /\ request'.seen = request.seen
  <2> HIDE DEF S
  <2> QED BY <1>2, <1>3, <1>5, CallRead
<1>7. ASSUME NEW w \in Calls, request'.what = w, NEW d \in Detectors
      PROVE  Truths(w, d)' \subseteq request'.seen[d]
  <2>1. Truths(w, d)' = Truths(w, d)
    BY <1>1 DEF tables, Truths, Tables, Sources
  <2>2. QED
    BY <1>1, <1>6, <1>7, <2>1 DEF RequestInv
<1>8. request.what = "map" /\ request.left = <<"missing">> /\ MapInv
  BY <1>1, Whereabouts, Heads DEF Calls
<1>9. /\ Fixed /\ \A d \in Detectors : SeenAlarm(d, NewestOf(request.T.rows, d))
      /\ \A d \in Detectors : request.S[d] # NoReading => SeenStatus(d, request.S[d])
  <2>1. <<"missing">> # <<"dataset", "store", "missing">> /\ <<"missing">> # <<>>
    OBVIOUS
  <2>2. QED
    BY <1>8, <2>1 DEF MapInv
<1>10. SeenStatus(e, snap[e])
  <2>1. Merged(snap, store)[e] = snap[e]
    BY <1>1 DEF Merged, StatusOf
  <2>2. Says("map", Tables, Merged(snap, store), e).status = snap[e]
    BY <1>1, <2>1 DEF Says, PointView, StatusOf
  <2>3. QED
    BY <1>1, <1>8, <2>2, SeesNow DEF Calls, Sources
<1>11. ASSUME NEW d \in Detectors, S[d] # NoReading PROVE SeenStatus(d, S[d])
  <2> HIDE DEF S
  <2>1. CASE d = e
    BY <1>3, <1>10, <2>1
  <2>2. CASE d # e
    BY <1>3, <1>9, <1>11, <2>2
  <2>3. QED
    BY <2>1, <2>2
<1>12. Fixed'
  BY <1>1, <1>6, <1>9 DEF Fixed, Tables, tables
<1>13. MapInv'
  <2> HIDE DEF S
  <2> QED BY <1>6, <1>8, <1>9, <1>11, <1>12 DEF MapInv, SeenAlarm, SeenStatus
<1>14. QED
  BY <1>6, <1>7, <1>8, <1>13 DEF RequestInv

LEMMA NoneMissingInv ==
    ASSUME ReadTypeOK, FeedInv, RequestInv, ReadNoneMissing PROVE RequestInv'
<1>1. /\ request # NoRequest /\ request.left # <<>> /\ Head(request.left) = "missing"
      /\ \A d \in request.T.points : request.S[d] # NoReading \/ snap[d] = NoReading
      /\ Reads(request.T, request.S)
  BY DEF ReadNoneMissing, At
<1>2. IsCall(request) /\ request.T \in Datasets /\ request.S \in Readings_
  BY <1>1, Whereabouts DEF IsCall
<1>3. /\ IsCall(request') /\ request'.what = request.what
      /\ request'.left = Tail(request.left) /\ request'.T = request.T /\ request'.S = request.S
      /\ request'.seen = request.seen
      /\ \A w \in Calls : request'.what = w =>
            \A d \in Detectors : Truths(w, d)' \subseteq request'.seen[d]
  BY <1>1, <1>2, ReadsCall
<1>4. /\ request.what = "map" /\ request.left = <<"missing">> /\ MapInv
      /\ request'.left = <<>>
  BY <1>1, <1>3, Whereabouts, Heads, Tails DEF Calls
<1>5. /\ Fixed /\ \A d \in Detectors : SeenAlarm(d, NewestOf(request.T.rows, d))
      /\ \A d \in Detectors : request.S[d] # NoReading => SeenStatus(d, request.S[d])
  <2>1. <<"missing">> # <<"dataset", "store", "missing">> /\ <<"missing">> # <<>>
    OBVIOUS
  <2>2. QED
    BY <1>4, <2>1 DEF MapInv
<1>6. ASSUME NEW d \in Detectors
      PROVE  /\ SeenListed(d, d \in Tables.points)
             /\ SeenStatus(d, Says("map", Tables, Merged(store, snap), d).status)
  BY <1>1, <1>4, SeesNow DEF Calls, Sources, Lists, _point_runtime_view
<1>7. ASSUME NEW d \in request.T.points
      PROVE  SeenStatus(d, StatusOf(request.S[d], Default(request.T.conf, d)))
  <2>0. d \in Detectors
    BY <1>2 DEF Datasets
  <2>1. CASE request.S[d] # NoReading
    BY <1>5, <2>0, <2>1 DEF StatusOf
  <2>2. CASE request.S[d] = NoReading
    <3>1. snap[d] = NoReading /\ store[d] = NoReading
      BY <1>1, <2>0, <2>2 DEF FeedInv
    <3>2. Merged(store, snap)[d] = NoReading
      BY <2>0, <3>1 DEF Merged, StatusOf
    <3>3. Says("map", Tables, Merged(store, snap), d).status = Default(conf, d)
      BY <3>2 DEF Says, PointView, StatusOf, Tables
    <3>4. StatusOf(request.S[d], Default(request.T.conf, d)) = Default(conf, d)
      BY <1>5, <2>2 DEF StatusOf, Fixed
    <3>5. QED
      BY <1>6, <2>0, <3>3, <3>4
  <2>3. QED
    BY <2>1, <2>2
<1>8. Answered'
  <2>1. /\ Lists("map", request.T, request.S) = request.T.points
        /\ \A d \in Detectors :
              /\ Says("map", request.T, request.S, d).status
                    = StatusOf(request.S[d], Default(request.T.conf, d))
              /\ Says("map", request.T, request.S, d).alarm = NewestOf(request.T.rows, d)
    BY DEF Lists, Says, PointView, _point_runtime_view
  <2>2. request.T.points = Tables.points
    BY <1>5 DEF Fixed
  <2>3. ASSUME NEW d \in Detectors
        PROVE  /\ SeenListed(d, d \in Lists("map", request.T, request.S))
               /\ d \in Lists("map", request.T, request.S) =>
                     /\ SeenStatus(d, Says("map", request.T, request.S, d).status)
                     /\ SeenAlarm(d, Says("map", request.T, request.S, d).alarm)
    BY <1>5, <1>6, <1>7, <2>1, <2>2
  <2>4. Answered
    BY <1>4, <2>3 DEF Answered
  <2>5. QED
    BY <1>3, <2>4 DEF Answered, SeenListed, SeenStatus, SeenAlarm
<1>9. MapInv'
  BY <1>4, <1>8 DEF MapInv
<1>10. QED
  BY <1>3, <1>4, <1>9 DEF RequestInv

\* The two reads that take over one table of a dataset read before, or of none.
LEMMA PartOfDataset ==
    ASSUME ReadTypeOK, NEW T \in Datasets
    PROVE  /\ [T EXCEPT !.snap = snap] \in Datasets /\ [T EXCEPT !.snap = snap].snap = snap
           /\ [T EXCEPT !.rows = rows] \in Datasets /\ [T EXCEPT !.rows = rows].rows = rows
           /\ [T EXCEPT !.rows = rows].snap = T.snap
           /\ [T EXCEPT !.conf = conf] \in Datasets
BY DEF ReadTypeOK, Datasets

LEMMA SnapshotsInv ==
    ASSUME ReadTypeOK, RequestInv, ReadSnapshots PROVE RequestInv'
<1> DEFINE T == [request.T EXCEPT !.snap = snap]
<1>1. /\ request # NoRequest /\ request.left # <<>> /\ Head(request.left) = "snapshots"
      /\ Reads(T, request.S)
  BY DEF ReadSnapshots, At
<1>2. IsCall(request) /\ T \in Datasets /\ T.snap = snap /\ request.S \in Readings_
  BY <1>1, Whereabouts, PartOfDataset DEF IsCall
<1> HIDE DEF T
<1>3. /\ IsCall(request') /\ request'.what = request.what
      /\ request'.left = Tail(request.left) /\ request'.T = T /\ request'.S = request.S
      /\ request'.seen = request.seen
      /\ \A w \in Calls : request'.what = w =>
            \A d \in Detectors : Truths(w, d)' \subseteq request'.seen[d]
  BY <1>1, <1>2, ReadsCall
<1>4. request.what = "monitor" /\ request'.left = <<"rows">>
  BY <1>1, <1>3, Whereabouts, Heads, Tails DEF Calls
<1>5. ASSUME NEW d \in Detectors
      PROVE  SeenListed(d, d \in list_realtime(snap)) /\ SeenStatus(d, snap[d])
  <2>1. Tables.snap = snap
    BY DEF Tables
  <2>2. QED
    BY <1>1, <1>4, <2>1, SeesNow DEF Calls, Sources, Lists, Says, MonitorCard, _build_snapshot
<1>6. MonitorInv'
  BY <1>2, <1>3, <1>4, <1>5 DEF MonitorInv, SeenListed, SeenStatus
<1>7. QED
  BY <1>3, <1>4, <1>6 DEF RequestInv

LEMMA RowsInv ==
    ASSUME ReadTypeOK, RequestInv, ReadRows PROVE RequestInv'
<1> DEFINE T == [request.T EXCEPT !.rows = rows]
<1>1. /\ request # NoRequest /\ request.left # <<>> /\ Head(request.left) = "rows"
      /\ Reads(T, request.S)
  BY DEF ReadRows, At
<1>2. /\ IsCall(request) /\ T \in Datasets /\ T.rows = rows /\ T.snap = request.T.snap
      /\ request.S \in Readings_
  BY <1>1, Whereabouts, PartOfDataset DEF IsCall
<1> HIDE DEF T
<1>3. /\ IsCall(request') /\ request'.what = request.what
      /\ request'.left = Tail(request.left) /\ request'.T = T /\ request'.S = request.S
      /\ request'.seen = request.seen
      /\ \A w \in Calls : request'.what = w =>
            \A d \in Detectors : Truths(w, d)' \subseteq request'.seen[d]
  BY <1>1, <1>2, ReadsCall
<1>4. /\ request'.left = <<>> /\ request.left = <<"rows">>
      /\ \/ request.what = "monitor" /\ MonitorInv
         \/ request.what = "alarms" /\ AlarmsInv
  BY <1>1, <1>3, Whereabouts, Heads, Tails DEF Calls
<1>5. <<"rows">> \notin {<<"snapshots", "rows">>, <<"index", "store", "rows">>, <<"store", "rows">>, <<>>}
  OBVIOUS
<1>6. ASSUME NEW d \in Detectors PROVE SeenAlarm(d, NewestOf(rows, d))
  <2>1. Tables.rows = rows
    BY DEF Tables
  <2>2. QED
    BY <1>1, <1>4, <2>1, SeesNow DEF Calls, Sources, Says, MonitorCard, _alarm_view
<1>7. CASE request.what = "monitor"
  <2>1. ASSUME NEW d \in Detectors
        PROVE  SeenListed(d, d \in list_realtime(T.snap)) /\ SeenStatus(d, T.snap[d])
    BY <1>2, <1>4, <1>5, <1>7 DEF MonitorInv
  <2>2. Answered'
    BY <1>2, <1>3, <1>6, <1>7, <2>1 DEF Answered, SeenListed, SeenStatus, SeenAlarm, Lists, Says,
       MonitorCard, _build_snapshot
  <2>3. MonitorInv'
    BY <1>4, <2>2 DEF MonitorInv
  <2>4. QED
    BY <1>3, <1>7, <2>3 DEF RequestInv
<1>8. CASE request.what = "alarms"
  <2>1. ASSUME NEW d \in Detectors
        PROVE  SeenListed(d, d \in Detectors) /\ SeenStatus(d, request.S[d])
    <3>1. SeenListed(d, d \in Lists("alarms", Tables, store))
      BY <1>1, <1>8, SeesNow DEF Calls, Sources
    <3>2. SeenStatus(d, request.S[d])
      BY <1>4, <1>5, <1>8 DEF AlarmsInv
    <3>3. QED
      BY <3>1, <3>2 DEF Lists
  <2>2. Answered'
    BY <1>2, <1>3, <1>6, <1>8, <2>1 DEF Answered, SeenListed, SeenStatus, SeenAlarm, Lists, Says,
       _alarm_view
  <2>3. AlarmsInv'
    BY <1>4, <2>2 DEF AlarmsInv
  <2>4. QED
    BY <1>3, <1>8, <2>3 DEF RequestInv
<1>9. QED
  BY <1>4, <1>7, <1>8

LEMMA IndexInv ==
    ASSUME ReadTypeOK, RequestInv, ReadIndex PROVE RequestInv'
<1> DEFINE T == [request.T EXCEPT !.conf = conf]
<1>1. /\ request # NoRequest /\ request.left # <<>> /\ Head(request.left) = "index"
      /\ Reads(T, request.S)
  BY DEF ReadIndex, At
<1>2. IsCall(request) /\ T \in Datasets /\ request.S \in Readings_
  BY <1>1, Whereabouts, PartOfDataset DEF IsCall
<1> HIDE DEF T
<1>3. /\ IsCall(request') /\ request'.what = request.what
      /\ request'.left = Tail(request.left)
      /\ \A w \in Calls : request'.what = w =>
            \A d \in Detectors : Truths(w, d)' \subseteq request'.seen[d]
  BY <1>1, <1>2, ReadsCall
<1>4. \/ request.what = "alarms" /\ request'.left = <<"store", "rows">>
      \/ request.what = "devices" /\ request'.left = <<"store">>
  BY <1>1, <1>3, Whereabouts, Heads, Tails DEF Calls
<1>5. QED
  BY <1>3, <1>4 DEF RequestInv, AlarmsInv, DevicesInv

LEMMA AskInv ==
    ASSUME ReadTypeOK, NEW w \in DOMAIN MomentsOf, Ask(w) PROVE RequestInv'
<1>1. w \in Calls
  BY DEF MomentsOf, Calls
<1>2. /\ request' = [what |-> w, left |-> MomentsOf[w], T |-> Nothing,
                     S |-> [d \in Detectors |-> NoReading], races |-> 0,
                     seen |-> [d \in Detectors |-> Truths(w, d)]]
      /\ UNCHANGED <<tables, store>>
  BY DEF Ask
<1>3. Nothing \in Datasets /\ [d \in Detectors |-> NoReading] \in Readings_
  BY DEF Nothing, Datasets, Readings_
<1>4. /\ IsCall(request') /\ request'.what = w /\ request'.left = MomentsOf[w]
      /\ request'.seen = [d \in Detectors |-> Truths(w, d)]
  BY <1>1, <1>2, <1>3 DEF IsCall
<1>5. ASSUME NEW d \in Detectors PROVE Truths(w, d)' \subseteq request'.seen[d]
  <2>1. Truths(w, d)' = Truths(w, d)
    BY <1>2 DEF tables, Truths, Tables, Sources
  <2>2. QED
    BY <1>4, <2>1
<1>6. /\ w = "bigscreen" => MomentsOf[w] = <<"dataset", "store">>
      /\ w = "map" => MomentsOf[w] = <<"dataset", "store", "missing">>
      /\ w = "monitor" => MomentsOf[w] = <<"snapshots", "rows">>
      /\ w = "alarms" => MomentsOf[w] = <<"index", "store", "rows">>
      /\ w = "devices" => MomentsOf[w] = <<"index", "store">>
  BY DEF MomentsOf
<1>7. QED
  BY <1>1, <1>4, <1>5, <1>6 DEF RequestInv, BigscreenInv, MapInv, MonitorInv, AlarmsInv, DevicesInv

LEMMA RequestStep ==
    ASSUME ReadTypeOK, FeedInv, RequestInv, [ReadNext]_readVars PROVE RequestInv'
<1>1. CASE UNCHANGED readVars
  <2>1. \A w \in Calls, d \in Detectors : Truths(w, d)' = Truths(w, d)
    BY <1>1 DEF readVars, tables, Truths, Tables, Sources
  <2>2. request' = request /\ UNCHANGED <<conf, mapOn, points>>
    BY <1>1 DEF readVars, tables
  <2>3. QED
    BY <2>1, <2>2 DEF RequestInv, BigscreenInv, MapInv, MonitorInv, AlarmsInv, DevicesInv, Fixed,
       Tables, Answered, SeenListed, SeenStatus, SeenAlarm
<1>2. CASE EndRequest
  BY <1>2 DEF EndRequest, RequestInv
<1>3. CASE Moment
  BY <1>3, DatasetInv, StoreInv, MissingInv, NoneMissingInv, SnapshotsInv, RowsInv, IndexInv
     DEF Moment
<1>4. QED
  BY <1>1, <1>2, <1>3, AskInv, WriteStep DEF ReadNext

LEMMA ReadInitInv == ASSUME ReadInit PROVE ReadTypeOK /\ FeedInv /\ RequestInv
<1>1. <<>> \in Seq(AlarmRow)
  OBVIOUS
<1>2. ReadTypeOK
  BY <1>1 DEF ReadInit, ReadTypeOK, AlarmRow
<1>3. QED
  BY <1>2 DEF ReadInit, FeedInv, RequestInv

\* The rows of alarm_records, the snapshots and the readings of the state store keep
\* their form.
THEOREM ReadTypeCorrect == ReadSpec => []ReadTypeOK
BY ReadInitInv, FeedStep, PTL DEF ReadSpec

\* Whatever the bounds, and however many cycles and changes fall between the moments
\* of a call: what it answers of a detector was true while it ran.
THEOREM AnswersHoldAlways == ReadSpec => []AnswersHold
<1>1. ASSUME RequestInv PROVE AnswersHold
  <2>1. SUFFICES ASSUME request # NoRequest, request.left = <<>> PROVE AnswersHold
    BY DEF AnswersHold
  <2>2. IsCall(request)
    BY <1>1, <2>1 DEF RequestInv
  <2>3. <<>> \notin {<<"dataset", "store">>, <<"store">>, <<"dataset", "store", "missing">>,
                     <<"store", "missing">>, <<"missing">>, <<"snapshots", "rows">>, <<"rows">>,
                     <<"index", "store", "rows">>, <<"store", "rows">>, <<"index", "store">>}
    OBVIOUS
  <2>4. Answered
    BY <1>1, <2>1, <2>2, <2>3 DEF RequestInv, IsCall, Calls, BigscreenInv, MapInv, MonitorInv, AlarmsInv,
       DevicesInv
  <2>5. QED
    BY <2>4 DEF Answered, AnswersHold, SeenListed, SeenStatus, SeenAlarm
<1>2. QED
  BY <1>1, ReadInitInv, FeedStep, RequestStep, PTL DEF ReadSpec
-----------------------------------------------------------------------------
(* The screens agree.                                                      *)

\* A detector has at most one active row, and when its last reading has been
\* ingested the row is of the status read.
RowsAgree ==
    /\ \A d \in Detectors : \A i, j \in ActiveOf(rows, d) : i = j
    /\ \A d \in Detectors :
          feed[d] = "rest" /\ store[d] \notin {NoReading, "invalid"} =>
              /\ \A i \in ActiveOf(rows, d) : rows[i].type = store[d]
              /\ store[d] \in AlarmTypes => ActiveOf(rows, d) # {}

LEMMA RecoveredActive ==
    ASSUME ReadTypeOK, NEW d \in Detectors, NEW s
    PROVE  /\ ActiveOf(RecoverOthers(d, s), d) = {i \in ActiveOf(rows, d) : rows[i].type = s}
           /\ \A e \in Detectors \ {d} : ActiveOf(RecoverOthers(d, s), e) = ActiveOf(rows, e)
<1> DEFINE r == RecoverOthers(d, s)
<1>1. /\ DOMAIN r = DOMAIN rows
      /\ \A i \in DOMAIN rows :
            r[i] = IF i \in ActiveOf(rows, d) /\ rows[i].type # s
                     THEN [rows[i] EXCEPT !.active = FALSE] ELSE rows[i]
  BY DEF RecoverOthers
<1>2. \A i \in DOMAIN rows : rows[i] \in AlarmRow
  <2>1. rows \in Seq(AlarmRow)
    BY DEF ReadTypeOK, AlarmRow
  <2>2. QED
    BY <2>1
<1>3. \A x \in AlarmRow : /\ ~ [x EXCEPT !.active = FALSE].active
                          /\ [x EXCEPT !.active = FALSE].det = x.det
  BY DEF AlarmRow
<1>4. ASSUME NEW i \in DOMAIN rows
      PROVE  /\ r[i].det = rows[i].det
             /\ r[i].active <=> rows[i].active /\ ~ (i \in ActiveOf(rows, d) /\ rows[i].type # s)
  <2>1. CASE i \in ActiveOf(rows, d) /\ rows[i].type # s
    <3>1. r[i] = [rows[i] EXCEPT !.active = FALSE]
      BY <1>1, <2>1
    <3>2. QED
      BY <1>2, <1>3, <2>1, <3>1
  <2>2. CASE ~ (i \in ActiveOf(rows, d) /\ rows[i].type # s)
    <3>1. r[i] = rows[i]
      BY <1>1, <2>2
    <3>2. QED
      BY <2>2, <3>1
  <2>3. QED
    BY <2>1, <2>2
<1>5. /\ ActiveOf(r, d) = {i \in ActiveOf(rows, d) : rows[i].type = s}
      /\ \A e \in Detectors \ {d} : ActiveOf(r, e) = ActiveOf(rows, e)
  <2> HIDE DEF r
  <2> QED BY <1>1, <1>4 DEF ActiveOf, list_active
<1>6. QED
  BY <1>5

LEMMA OpenedActive ==
    ASSUME ReadTypeOK, NEW rs \in Seq(AlarmRow), NEW row \in AlarmRow, row.active
    PROVE  /\ ActiveOf(Append(rs, row), row.det) = ActiveOf(rs, row.det) \union {Len(rs) + 1}
           /\ Append(rs, row)[Len(rs) + 1] = row
           /\ \A i \in DOMAIN rs : Append(rs, row)[i] = rs[i]
           /\ \A e \in Detectors \ {row.det} : ActiveOf(Append(rs, row), e) = ActiveOf(rs, e)
<1>1. /\ DOMAIN Append(rs, row) = DOMAIN rs \union {Len(rs) + 1} /\ Len(rs) + 1 \notin DOMAIN rs
      /\ Append(rs, row)[Len(rs) + 1] = row
      /\ \A i \in DOMAIN rs : Append(rs, row)[i] = rs[i]
  OBVIOUS
<1>2. QED
  BY <1>1 DEF ActiveOf, list_active

LEMMA IngestAgree ==
    ASSUME ReadTypeOK, FeedInv, RowsAgree, NEW d \in Detectors, Ingest(d) PROVE RowsAgree'
<1> DEFINE s == snap[d]
           rs == RecoverOthers(d, s)
           row == [det |-> d, type |-> s, active |-> TRUE]
<1>1. /\ feed[d] = "stored" /\ feed' = [feed EXCEPT ![d] = "rest"] /\ store' = store
      /\ store[d] = s
  BY DEF Ingest, FeedInv
<1>2. \A e \in Detectors \ {d} : feed'[e] = feed[e]
  BY <1>1 DEF ReadTypeOK
<1>3. rs \in Seq(AlarmRow) /\ Len(rs) = Len(rows)
      /\ (\A i \in DOMAIN rows : rs[i].type = rows[i].type) /\ DOMAIN rs = DOMAIN rows
  <2>1. rs \in Seq(AlarmRow) /\ Len(rs) = Len(rows)
        /\ \A i \in DOMAIN rows : rs[i].type = rows[i].type
    BY RecoveredRows
  <2>2. DOMAIN rs = DOMAIN rows
    BY DEF RecoverOthers
  <2>3. QED
    BY <2>1, <2>2
<1>4. /\ ActiveOf(rs, d) = {i \in ActiveOf(rows, d) : rows[i].type = s}
      /\ \A e \in Detectors \ {d} : ActiveOf(rs, e) = ActiveOf(rows, e)
  BY RecoveredActive
<1>5. \A e \in Detectors : ActiveOf(rows, e) \subseteq DOMAIN rows
  BY DEF ActiveOf, list_active
<1>6. CASE s = "invalid"
  <2>1. rows' = rows
    <3>1. ~ OpensRow(d, snap[d])
      BY <1>6 DEF OpensRow, AlarmTypes, Urgency, ToSet
    <3>2. QED
      BY <1>6, <3>1 DEF Ingest
  <2>2. QED
    BY <1>1, <1>2, <1>6, <2>1 DEF RowsAgree
<1>7. CASE s # "invalid" /\ OpensRow(d, s)
  <2>1. rows' = Append(rs, row)
    BY <1>7 DEF Ingest
  <2>2. row \in AlarmRow /\ row.active /\ row.det = d /\ row.type = s
    BY <1>7 DEF AlarmRow, OpensRow
  <2>3. ActiveOf(rs, d) = {}
    BY <1>4, <1>7 DEF OpensRow
  <2>4. /\ ActiveOf(rows', d) = {Len(rs) + 1} /\ rows'[Len(rs) + 1].type = s
        /\ \A e \in Detectors \ {d} : ActiveOf(rows', e) = ActiveOf(rows, e)
        /\ \A i \in DOMAIN rows : rows'[i].type = rows[i].type
    <3> DEFINE n == Append(rs, row)
    <3> HIDE DEF row, rs
    <3>1. /\ ActiveOf(n, row.det) = ActiveOf(rs, row.det) \union {Len(rs) + 1}
          /\ n[Len(rs) + 1] = row
          /\ \A i \in DOMAIN rs : n[i] = rs[i]
          /\ \A e \in Detectors \ {row.det} : ActiveOf(n, e) = ActiveOf(rs, e)
      BY <1>3, <2>2, OpenedActive
    <3>2. rows' = n
      BY <2>1
    <3> HIDE DEF n
    <3>3. QED
      BY <1>3, <1>4, <2>2, <2>3, <3>1, <3>2
  <2>5. QED
    <3> HIDE DEF row, rs
    <3> QED BY <1>1, <1>2, <1>5, <2>4 DEF RowsAgree
<1>8. CASE s # "invalid" /\ ~ OpensRow(d, s)
  <2>1. rows' = rs
    BY <1>8 DEF Ingest
  <2>2. s \in AlarmTypes => ActiveOf(rs, d) # {}
    BY <1>4, <1>8 DEF OpensRow
  <2>3. QED
    <3> HIDE DEF rs
    <3> QED BY <1>1, <1>2, <1>3, <1>4, <1>5, <2>1, <2>2 DEF RowsAgree
<1>9. QED
  BY <1>6, <1>7, <1>8

LEMMA AgreeStep ==
    ASSUME ReadTypeOK, FeedInv, RowsAgree, [ReadNext]_readVars PROVE RowsAgree'
<1>1. CASE UNCHANGED <<tables, store, feed, edits>>
  BY <1>1 DEF tables, RowsAgree
<1>2. ASSUME NEW d \in Detectors, NEW s \in Readings[d], Persist(d, s) PROVE RowsAgree'
  BY <1>2 DEF Persist, RowsAgree, ReadTypeOK
<1>3. ASSUME NEW d \in Detectors, UpdateReadings(d) PROVE RowsAgree'
  BY <1>3 DEF UpdateReadings, tables, RowsAgree, ReadTypeOK
<1>4. CASE Edit
  BY <1>4 DEF Edit, EditMap, EditDetector, EditPoint, Restart, tables, RowsAgree
<1>5. QED
  BY <1>1, <1>2, <1>3, <1>4, IngestAgree, MomentLeaves DEF ReadNext, readVars, Feed

LEMMA AlarmsAreNotNormal ==
    /\ AlarmTypes \subseteq Statuses /\ POPUP_STATUSES \subseteq AlarmTypes
    /\ NoAlarm \notin AlarmTypes /\ "normal" \notin AlarmTypes /\ "invalid" \notin AlarmTypes
    /\ \A s \in Statuses : s \in AlarmTypes \/ s = "normal" \/ s = "invalid"
BY DEF AlarmTypes, Urgency, ToSet, Statuses, POPUP_STATUSES, ALARM_STATUSES, NoAlarm

\* Of a single row it does not matter by which order it is found.
LEMMA OneRow ==
    ASSUME ReadTypeOK, RowsAgree, NEW d \in Detectors
    PROVE  /\ NewestOf(rows, d) = UrgentOf(rows, d)
           /\ ActiveOf(rows, d) = {} => NewestOf(rows, d) = NoAlarm
           /\ \A i \in ActiveOf(rows, d) :
                 /\ NewestOf(rows, d) = rows[i].type /\ rows[i].type \in AlarmTypes
                 /\ rows[i].det = d /\ i \in DOMAIN rows
<1>1. rows \in Seq(AlarmRow)
  BY DEF ReadTypeOK, AlarmRow
<1>2. CASE ActiveOf(rows, d) = {}
  BY <1>2 DEF NewestOf, UrgentOf
<1>3. ASSUME NEW i \in ActiveOf(rows, d)
      PROVE  /\ NewestOf(rows, d) = rows[i].type /\ UrgentOf(rows, d) = rows[i].type
             /\ rows[i].type \in AlarmTypes /\ rows[i].det = d /\ i \in DOMAIN rows
  <2>1. ActiveOf(rows, d) = {i}
    BY DEF RowsAgree
  <2>2. i \in DOMAIN rows /\ rows[i].det = d
    BY DEF ActiveOf, list_active
  <2>3. i \in Nat /\ rows[i] \in AlarmRow
    BY <1>1, <2>2
  <2>4. Max({i}) = i
    BY <2>3 DEF Max
  <2>5. MostUrgent(rows, {i}) = i
    BY <2>3 DEF MostUrgent
  <2>6. QED
    BY <2>1, <2>2, <2>3, <2>4, <2>5 DEF NewestOf, UrgentOf, AlarmRow
<1>4. QED
  BY <1>2, <1>3

\* The alarm of an ingested detector is its status.
LEMMA IngestedAlarm ==
    ASSUME ReadTypeOK, FeedInv, RowsAgree, NEW d \in Detectors, Ingested(d)
    PROVE  /\ NewestOf(rows, d) = IF store[d] \in AlarmTypes THEN store[d] ELSE NoAlarm
           /\ ActiveOf(rows, d) # {} <=> store[d] \in AlarmTypes
           /\ store[d] \in Statuses
<1>1. store[d] \in Statuses /\ store[d] \notin {NoReading, "invalid"} /\ feed[d] = "rest"
  BY DEF Ingested, Settled, ReadTypeOK
<1>2. \A i \in ActiveOf(rows, d) : rows[i].type = store[d] /\ rows[i].type \in AlarmTypes
                                   /\ NewestOf(rows, d) = rows[i].type
  BY <1>1, OneRow DEF RowsAgree
<1>3. store[d] \in AlarmTypes => ActiveOf(rows, d) # {}
  BY <1>1 DEF RowsAgree
<1>4. CASE ActiveOf(rows, d) = {}
  BY <1>1, <1>3, <1>4, OneRow
<1>5. CASE ActiveOf(rows, d) # {}
  BY <1>1, <1>2, <1>5
<1>6. QED
  BY <1>4, <1>5

\* What the four screens say of a detector they show.
LEMMA SettledStatus ==
    ASSUME ReadTypeOK, FeedInv, NEW d \in Detectors, Settled(d)
    PROVE  /\ Card(Tables, store, d).status = store[d]
           /\ PointView(Tables, Merged(store, snap), d).status = store[d]
           /\ MonitorCard(Tables, d).status = store[d]
<1>1. store[d] # NoReading /\ store[d] = snap[d]
  BY DEF Settled, FeedInv, ReadTypeOK
<1>2. Merged(store, snap)[d] = store[d]
  BY <1>1 DEF Merged, StatusOf
<1>3. QED
  BY <1>1, <1>2 DEF Card, PointView, MonitorCard, StatusOf, Tables

LEMMA ScreenAlarms ==
    ASSUME ReadTypeOK, RowsAgree, NEW d \in Detectors
    PROVE  /\ Card(Tables, store, d).alarm = NewestOf(rows, d)
           /\ PointView(Tables, Merged(store, snap), d).alarm = NewestOf(rows, d)
           /\ MonitorCard(Tables, d).alarm = NewestOf(rows, d)
           /\ _alarm_view(Tables, store, d).alarm = NewestOf(rows, d)
BY OneRow DEF Card, PointView, MonitorCard, _alarm_view, Tables

\* The parts of SameEverywhere, over the screens of the four services.
LEMMA ScreenParts ==
    /\ get_snapshot(Tables, store).cards = [d \in Live(conf) |-> Card(Tables, store, d)]
    /\ get_snapshot(Tables, store).points = [d \in Tables.points |-> Card(Tables, store, d)]
    /\ _point_runtime_view(Tables, Merged(store, snap))
          = [d \in Tables.points |-> PointView(Tables, Merged(store, snap), d)]
    /\ _build_snapshot(Tables).cards = [d \in list_realtime(snap) |-> MonitorCard(Tables, d)]
    /\ _build_snapshot(Tables).alarms = list_active(rows)
BY DEF get_snapshot, _device_cards, _map_points, _point_runtime_view, _build_snapshot, Tables

LEMMA PulseParts ==
    ASSUME NEW big, NEW mon
    PROVE  /\ RenderMonitor(mon).pulses = CardPulses(mon.cards)
           /\ RenderMonitor(mon).list = {rows[i].det : i \in mon.alarms}
           /\ RenderDevicesPage(big).pulses = Pulsing(big.cards)
BY DEF RenderMonitor, RenderDevicesPage

LEMMA SameForSettled ==
    ASSUME ReadTypeOK, FeedInv, RowsAgree, NEW d \in Detectors, Settled(d)
    PROVE  LET big == get_snapshot(Tables, store)
               pts == _point_runtime_view(Tables, Merged(store, snap))
               mon == _build_snapshot(Tables)
           IN  /\ \A screen \in {big.cards, big.points, pts, mon.cards} :
                     d \in DOMAIN screen => screen[d].status = store[d]
               /\ big.cards[d].alarm = _alarm_view(Tables, store, d).alarm
               /\ get_realtime_device(Tables, store, d)
<1>1. conf[d].live /\ store[d] # NoReading /\ d \in Live(conf)
  BY DEF Settled, Live
<1>2. get_realtime_device(Tables, store, d)
  BY <1>1 DEF get_realtime_device, Tables
<1>3. get_snapshot(Tables, store).cards[d] = Card(Tables, store, d)
  BY <1>1, ScreenParts
<1>4. get_snapshot(Tables, store).cards[d].alarm = _alarm_view(Tables, store, d).alarm
  BY <1>3, ScreenAlarms
<1>5. \A screen \in {get_snapshot(Tables, store).cards, get_snapshot(Tables, store).points,
                     _point_runtime_view(Tables, Merged(store, snap)), _build_snapshot(Tables).cards} :
         d \in DOMAIN screen => screen[d].status = store[d]
  BY ScreenParts, SettledStatus
<1>6. QED
  BY <1>2, <1>4, <1>5

LEMMA SameForIngested ==
    ASSUME ReadTypeOK, FeedInv, RowsAgree, NEW d \in Detectors, Ingested(d)
    PROVE  LET big == get_snapshot(Tables, store)
               pts == _point_runtime_view(Tables, Merged(store, snap))
               mon == _build_snapshot(Tables)
               monitor == RenderMonitor(mon)
           IN  /\ big.cards[d].alarm = IF store[d] \in AlarmTypes THEN store[d] ELSE NoAlarm
               /\ d \in DOMAIN mon.cards =>
                     /\ d \in monitor.pulses <=> d \in RenderDevicesPage(big).pulses
                     /\ d \in monitor.list <=> store[d] \in AlarmTypes
               /\ d \in DOMAIN pts =>
                     /\ d \in PointPulses(pts) <=> d \in Pulsing(big.points)
                     /\ store[d] # "normal" => d \in RenderAlarmList(pts)
<1> DEFINE big == get_snapshot(Tables, store)
           pts == _point_runtime_view(Tables, Merged(store, snap))
           mon == _build_snapshot(Tables)
           alarm == IF store[d] \in AlarmTypes THEN store[d] ELSE NoAlarm
<1>1. Settled(d) /\ d \in Live(conf)
  BY DEF Ingested, Settled, Live
<1>2. /\ Card(Tables, store, d).status = store[d] /\ Card(Tables, store, d).alarm = alarm
      /\ PointView(Tables, Merged(store, snap), d).status = store[d]
      /\ PointView(Tables, Merged(store, snap), d).alarm = alarm
      /\ MonitorCard(Tables, d).status = store[d]
  BY <1>1, SettledStatus, ScreenAlarms, IngestedAlarm
<1>3. /\ big.cards[d] = Card(Tables, store, d) /\ d \in DOMAIN big.cards
      /\ d \in DOMAIN mon.cards => mon.cards[d] = MonitorCard(Tables, d)
      /\ d \in DOMAIN pts <=> d \in DOMAIN big.points
      /\ d \in DOMAIN pts => /\ pts[d] = PointView(Tables, Merged(store, snap), d)
                             /\ big.points[d] = Card(Tables, store, d)
  BY <1>1, ScreenParts
<1>4. store[d] \in POPUP_STATUSES => alarm # NoAlarm
  BY AlarmsAreNotNormal
<1>5. store[d] \in {"normal"} \union AlarmTypes
  BY IngestedAlarm, AlarmsAreNotNormal DEF Ingested
<1>6. d \in {rows[i].det : i \in mon.alarms} <=> store[d] \in AlarmTypes
  <2>1. d \in {rows[i].det : i \in mon.alarms} <=> ActiveOf(rows, d) # {}
    BY ScreenParts DEF ActiveOf
  <2>2. QED
    BY <2>1, IngestedAlarm
<1>7. d \in DOMAIN mon.cards =>
        /\ d \in CardPulses(mon.cards) <=> d \in Pulsing(big.cards)
        /\ d \in {rows[i].det : i \in mon.alarms} <=> store[d] \in AlarmTypes
  <2> HIDE DEF big, pts, mon, alarm
  <2> QED BY <1>2, <1>3, <1>4, <1>6 DEF CardPulses, Pulsing, alarm_property_for_status
<1>8. d \in DOMAIN pts =>
        /\ d \in PointPulses(pts) <=> d \in Pulsing(big.points)
        /\ store[d] # "normal" => d \in RenderAlarmList(pts)
  <2>1. store[d] \in AlarmTypes => alarm # NoAlarm
    BY AlarmsAreNotNormal
  <2> HIDE DEF big, pts, mon, alarm
  <2>2. QED
    BY <1>2, <1>3, <1>4, <1>5, <2>1 DEF PointPulses, Pulsing, Flagged, RenderAlarmList,
       alarm_property_for_status
<1>9. QED
  BY <1>2, <1>3, <1>7, <1>8, PulseParts

LEMMA AgreeingScreens ==
    ASSUME ReadTypeOK, FeedInv, RowsAgree PROVE SameEverywhere
<1>1. ASSUME NEW d \in DOMAIN _point_runtime_view(Tables, Merged(store, snap))
      PROVE  _point_runtime_view(Tables, Merged(store, snap))[d].alarm
                = get_snapshot(Tables, store).points[d].alarm
  <2>1. d \in Tables.points /\ d \in Detectors
    BY ScreenParts DEF Tables, ReadTypeOK
  <2>2. QED
    BY <2>1, ScreenParts, ScreenAlarms
<1>2. QED
  BY <1>1, SameForSettled, SameForIngested DEF SameEverywhere

\* The status and the alarm of a detector are the same on the bigscreen, on the map,
\* on the monitoring page and in the answers of the API, whatever the cycles, the
\* administrator and the restarts have written.
THEOREM SameEverywhereAlways == ReadSpec => []SameEverywhere
<1>1. ReadInit => RowsAgree
  BY DEF ReadInit, RowsAgree, ActiveOf, list_active, NoReading
<1>2. QED
  BY <1>1, AgreeingScreens, AgreeStep, ReadInitInv, FeedStep, PTL DEF ReadSpec
-----------------------------------------------------------------------------
(* The order of the alarms, and their number.                              *)

LT == {ss \in Nat \X Nat : ss[1] < ss[2]}

LEMMA LessIsWellFounded == IsWellFoundedOn(LT, Nat)
<1>1. LT = OpToRel(<, Nat)
  BY Zenon DEF LT, OpToRel
<1>2. QED
  BY <1>1, NatLessThanWellFounded, Zenon

LEMMA Least ==
    ASSUME NEW T \in SUBSET Nat, T # {} PROVE \E x \in T : \A y \in T : x <= y
<1>1. PICK x \in T : \A y \in T : ~ (<<y, x>> \in LT)
  BY LessIsWellFounded, WFMin, Zenon
<1>2. ASSUME NEW y \in T PROVE x <= y
  <2>1. y < x => <<y, x>> \in LT
    BY DEF LT
  <2>2. QED
    BY <1>1, <2>1
<1>3. QED
  BY <1>1, <1>2

LEMMA Ranks ==
    \A t \in AlarmTypes : Rank(t) \in 1..7
<1>1. DOMAIN Urgency = 1..7
  BY DEF Urgency
<1>2. \A t \in AlarmTypes : \E n \in DOMAIN Urgency : Urgency[n] = t
  BY <1>1 DEF AlarmTypes, ToSet
<1>3. QED
  BY <1>1, <1>2 DEF Rank

\* _alarm_sort_key orders the rows: the first one exists, and none is more urgent.
LEMMA MostUrgentIsFirst ==
    ASSUME NEW rs \in Seq(AlarmRow), NEW ids \in SUBSET DOMAIN rs, ids # {}
    PROVE  /\ MostUrgent(rs, ids) \in ids
           /\ \A j \in ids : Rank(rs[MostUrgent(rs, ids)].type) <= Rank(rs[j].type)
<1>0. \A i \in ids : rs[i] \in AlarmRow
  OBVIOUS
<1>1. \A i \in ids : Rank(rs[i].type) \in Nat
  BY <1>0, Ranks DEF AlarmRow
<1>2. DOMAIN rs = 1..Len(rs) /\ Len(rs) \in Nat
  OBVIOUS
<1>3. \A i \in ids : i \in Nat /\ Len(rs) - i \in Nat
  BY <1>2
<1>4. PICK a \in ids : \A j \in ids : Rank(rs[a].type) <= Rank(rs[j].type)
  <2> DEFINE T == {Rank(rs[i].type) : i \in ids}
  <2>1. T \in SUBSET Nat /\ T # {}
    BY <1>1
  <2>2. PICK x \in T : \A y \in T : x <= y
    BY <2>1, Least
  <2>3. QED
    BY <2>2
<1> DEFINE same == {i \in ids : Rank(rs[i].type) = Rank(rs[a].type)}
<1>5. PICK b \in same : \A j \in same : b >= j
  <2> DEFINE T == {Len(rs) - i : i \in same}
  <2>1. T \in SUBSET Nat /\ T # {}
    BY <1>3
  <2>2. PICK x \in T : \A y \in T : x <= y
    BY <2>1, Least
  <2>3. PICK b \in same : x = Len(rs) - b
    OBVIOUS
  <2>4. \A j \in same : Len(rs) - b <= Len(rs) - j
    BY <2>2, <2>3
  <2>5. \A j \in same : b >= j
    BY <1>2, <1>3, <2>4, SMTT(30)
  <2>6. QED
    BY <2>5
<1>6. \A j \in ids : \/ Rank(rs[b].type) < Rank(rs[j].type)
                     \/ Rank(rs[b].type) = Rank(rs[j].type) /\ b >= j
  <2>1. ASSUME NEW j \in ids, Rank(rs[b].type) # Rank(rs[j].type)
        PROVE  Rank(rs[b].type) < Rank(rs[j].type)
    BY <1>1, <1>4, <2>1
  <2>2. QED
    BY <1>5, <2>1
<1>7. LET m == MostUrgent(rs, ids)
      IN  m \in ids /\ \A j \in ids : \/ Rank(rs[m].type) < Rank(rs[j].type)
                                      \/ Rank(rs[m].type) = Rank(rs[j].type) /\ m >= j
  BY <1>6 DEF MostUrgent
<1>8. QED
  BY <1>1, <1>7

\* The flagged cards and points are those of the detectors with an active row.
LEMMA FlaggedItems ==
    ASSUME ReadTypeOK, RowsAgree, NEW ds \in SUBSET Detectors
    PROVE  Flagged([d \in ds |-> Card(Tables, store, d)]) = {d \in ds : ActiveOf(rows, d) # {}}
<1>1. ASSUME NEW d \in ds
      PROVE  Card(Tables, store, d).alarm # NoAlarm <=> ActiveOf(rows, d) # {}
  BY ScreenAlarms, OneRow, AlarmsAreNotNormal
<1>2. QED
  BY <1>1 DEF Flagged

LEMMA ActiveRows ==
    ASSUME ReadTypeOK, NEW i \in list_active(rows)
    PROVE  /\ rows \in Seq(AlarmRow) /\ i \in DOMAIN rows /\ rows[i] \in AlarmRow
           /\ rows[i].det \in Detectors /\ i \in ActiveOf(rows, rows[i].det)
<1>1. rows \in Seq(AlarmRow)
  BY DEF ReadTypeOK, AlarmRow
<1>2. i \in DOMAIN rows
  BY DEF list_active
<1>3. rows[i] \in AlarmRow
  BY <1>1, <1>2
<1>4. QED
  BY <1>1, <1>2, <1>3 DEF AlarmRow, ActiveOf

\* No detector has two active rows, so the rows and the cards can be counted alike.
LEMMA CountedAlike ==
    ASSUME ReadTypeOK, RowsAgree
    PROVE  LET lit == {d \in Live(conf) : ActiveOf(rows, d) # {}}
               orphans == {i \in list_active(rows) : ~ conf[rows[i].det].live}
           IN  Cardinality(list_active(rows)) = Cardinality(lit) + Cardinality(orphans)
<1> DEFINE lit == {d \in Live(conf) : ActiveOf(rows, d) # {}}
           act == list_active(rows)
           orphans == {i \in act : ~ conf[rows[i].det].live}
           mine == {i \in act : conf[rows[i].det].live}
           f == [i \in mine |-> rows[i].det]
<1>1. IsFiniteSet(act)
  <2>1. rows \in Seq(AlarmRow)
    BY DEF ReadTypeOK, AlarmRow
  <2>2. Len(rows) \in Nat /\ act \in SUBSET (1..Len(rows))
    BY <2>1 DEF list_active
  <2>3. IsFiniteSet(1..Len(rows))
    BY <2>2, FS_Interval
  <2> HIDE DEF act
  <2>4. QED
    BY <2>2, <2>3, FS_Subset
<1>2. IsFiniteSet(mine) /\ IsFiniteSet(orphans)
  BY <1>1, FS_Subset
<1>3. f \in [mine -> lit]
  <2>1. ASSUME NEW i \in mine PROVE rows[i].det \in lit
    BY ActiveRows DEF Live
  <2>2. QED
    BY <2>1
<1>4. \A i, j \in mine : f[i] = f[j] => i = j
  BY ActiveRows DEF RowsAgree
<1>5. \A d \in lit : \E i \in mine : f[i] = d
  <2>1. ASSUME NEW d \in lit PROVE \E i \in mine : rows[i].det = d
    <3>1. PICK i \in ActiveOf(rows, d) : TRUE
      OBVIOUS
    <3>2. i \in act /\ rows[i].det = d
      BY DEF ActiveOf
    <3>3. QED
      BY <3>2 DEF Live
  <2>2. QED
    BY <2>1
<1> HIDE DEF mine, lit, f
<1>6. ExistsBijection(mine, lit)
  <2>1. f \in Injection(mine, lit)
    BY <1>3, <1>4 DEF Injection, IsInjective
  <2>2. f \in Surjection(mine, lit)
    BY <1>3, <1>5 DEF Surjection
  <2>3. QED
    BY <2>1, <2>2 DEF ExistsBijection, Bijection
<1>7. Cardinality(mine) = Cardinality(lit)
  BY <1>2, <1>6, FS_Bijection
<1>8. act = mine \cup orphans /\ mine \cap orphans = {}
  BY DEF mine
<1>9. Cardinality(act) = Cardinality(mine) + Cardinality(orphans) - Cardinality({})
  BY <1>2, <1>8, FS_Union
<1>10. Cardinality({}) = 0 /\ Cardinality(mine) \in Nat /\ Cardinality(orphans) \in Nat
  BY <1>2, FS_EmptySet, FS_CardinalityType
<1>11. QED
  BY <1>7, <1>9, <1>10 DEF lit

\* The parts of AlarmsAreShown, over the screens that show alarms.
LEMMA AlarmParts ==
    ASSUME NEW big, NEW mon
    PROVE  /\ RenderMonitor(mon).metrics.active = Cardinality(mon.alarms)
           /\ RenderAlarmPage(big).points =
                 IF big.focus \cap DOMAIN big.points # {} THEN big.focus ELSE Flagged(big.points)
           /\ RenderMapPage(big).list \subseteq Flagged(big.points)
BY DEF RenderMonitor, _build_metrics, RenderAlarmPage, RenderMapPage, Listed

\* What the bigscreen takes as its focus.
LEMMA TheFocus ==
    ASSUME ReadTypeOK
    PROVE  LET act == list_active(rows)
               first == MostUrgent(rows, act)
           IN  /\ get_snapshot(Tables, store).focus =
                     IF ~ priority \/ act = {} THEN {} ELSE {rows[first].det} \cap Live(conf)
               /\ get_snapshot(Tables, store).summary.active = Cardinality(act)
               /\ act # {} => /\ first \in act
                              /\ \A j \in act : Rank(rows[first].type) <= Rank(rows[j].type)
<1>1. rows \in Seq(AlarmRow) /\ list_active(rows) \in SUBSET DOMAIN rows
  BY DEF ReadTypeOK, AlarmRow, list_active
<1>2. list_active(rows) # {} =>
          /\ MostUrgent(rows, list_active(rows)) \in list_active(rows)
          /\ \A j \in list_active(rows) :
                Rank(rows[MostUrgent(rows, list_active(rows))].type) <= Rank(rows[j].type)
  BY <1>1, MostUrgentIsFirst, Zenon
<1>3. Tables.rows = rows /\ Tables.priority = priority
  BY DEF Tables
<1>4. get_snapshot(Tables, store).focus = _alarm_focus(Tables, get_snapshot(Tables, store).cards)
  BY DEF get_snapshot
<1>5. DOMAIN get_snapshot(Tables, store).cards = Live(conf)
  BY ScreenParts
<1>6. get_snapshot(Tables, store).summary.active = Cardinality(list_active(rows))
  BY <1>3 DEF get_snapshot, _summary
<1>7. QED
  BY <1>2, <1>3, <1>4, <1>5, <1>6 DEF _alarm_focus

LEMMA ShownAlarms ==
    ASSUME ReadTypeOK, RowsAgree PROVE AlarmsAreShown
<1> DEFINE big == get_snapshot(Tables, store)
           act == list_active(rows)
           first == MostUrgent(rows, act)
           orphans == {i \in act : ~ conf[rows[i].det].live}
<1>1. Flagged(big.cards) = {d \in Live(conf) : ActiveOf(rows, d) # {}}
  <2>1. Live(conf) \in SUBSET Detectors
    BY DEF Live
  <2>2. QED
    BY <2>1, FlaggedItems, ScreenParts
<1>2. /\ Flagged(big.points) = {d \in Tables.points : ActiveOf(rows, d) # {}}
      /\ DOMAIN big.points = Tables.points
  <2>1. Tables.points \in SUBSET Detectors
    BY DEF Tables, ReadTypeOK
  <2>2. QED
    BY <2>1, FlaggedItems, ScreenParts
<1>3. big.summary.active = Cardinality(Flagged(big.cards)) + Cardinality(orphans)
  BY <1>1, TheFocus, CountedAlike
<1>4. RenderMonitor(_build_snapshot(Tables)).metrics.active = big.summary.active
  BY TheFocus, AlarmParts, ScreenParts
<1>5. \A d \in big.focus : /\ act # {} /\ first \in act /\ d = rows[first].det
                           /\ d \in Live(conf) /\ ActiveOf(rows, d) # {} /\ d \in Detectors
  <2>1. SUFFICES ASSUME NEW d \in big.focus
                 PROVE  /\ act # {} /\ first \in act /\ d = rows[first].det
                        /\ d \in Live(conf) /\ ActiveOf(rows, d) # {} /\ d \in Detectors
    OBVIOUS
  <2>2. act # {} /\ first \in act /\ d = rows[first].det /\ d \in Live(conf)
    BY TheFocus
  <2>3. QED
    BY <2>2, ActiveRows
<1>6. ASSUME NEW d \in big.focus, NEW e \in Flagged(big.cards)
      PROVE  Rank(big.cards[d].alarm) <= Rank(big.cards[e].alarm)
  <2>1. PICK j \in ActiveOf(rows, e) : TRUE
    BY <1>1
  <2>2. e \in Live(conf) /\ e \in Detectors /\ j \in act
    BY <1>1 DEF Live, ActiveOf
  <2>3. first \in ActiveOf(rows, d)
    BY <1>5, ActiveRows
  <2>4. big.cards[d].alarm = rows[first].type
    BY <1>5, <2>3, ScreenParts, ScreenAlarms, OneRow
  <2>5. big.cards[e].alarm = rows[j].type
    BY <2>1, <2>2, ScreenParts, ScreenAlarms, OneRow
  <2>6. Rank(rows[first].type) <= Rank(rows[j].type)
    BY <2>2, TheFocus
  <2>7. QED
    BY <2>4, <2>5, <2>6
<1>7. priority /\ big.focus = {} => Flagged(big.cards) = {} \/ orphans # {}
  <2>1. CASE act = {}
    BY <1>1, <2>1 DEF ActiveOf
  <2>2. CASE priority /\ act # {} /\ big.focus = {}
    <3>1. first \in act /\ rows[first].det \notin Live(conf) /\ rows[first].det \in Detectors
      BY <2>2, TheFocus, ActiveRows
    <3>2. first \in orphans
      BY <3>1 DEF Live
    <3>3. QED
      BY <3>2
  <2>3. QED
    BY <2>1, <2>2
<1>8. RenderAlarmPage(big).points \subseteq Flagged(big.points)
  <2>1. CASE big.focus \cap DOMAIN big.points # {}
    <3>1. RenderAlarmPage(big).points = big.focus
      BY <2>1, AlarmParts
    <3>2. \A d \in big.focus : d \in DOMAIN big.points
      BY <1>5, <2>1
    <3>3. QED
      BY <1>2, <1>5, <3>1, <3>2
  <2>2. QED
    BY <2>1, AlarmParts
<1>9. big.focus \subseteq Flagged(big.cards)
  BY <1>1, <1>5
<1>10. QED
  BY <1>3, <1>4, <1>6, <1>7, <1>8, <1>9, AlarmParts DEF AlarmsAreShown

\* On the bigscreen the number of active alarms is that of its flagged cards and of the
\* alarms of deleted detectors, and the focus is the card of the most urgent alarm.
THEOREM AlarmsAreShownAlways == ReadSpec => []AlarmsAreShown
<1>1. ReadInit => RowsAgree
  BY DEF ReadInit, RowsAgree, ActiveOf, list_active, NoReading
<1>2. QED
  BY <1>1, ShownAlarms, AgreeStep, ReadInitInv, FeedStep, PTL DEF ReadSpec
-----------------------------------------------------------------------------
(* The counts of the screens.                                              *)

\* Counting each group of a finite set and adding up counts the set.
LEMMA AddedUp ==
    ASSUME NEW A, IsFiniteSet(A), NEW C, NEW key \in [A -> C], NEW n, DOMAIN n = C,
           \A c \in C : n[c] = Cardinality({d \in A : key[d] = c})
    PROVE  Together(n) = Cardinality(A)
<1> DEFINE Class(c) == {d \in A : key[d] = c}
           F == [c \in C |-> CHOOSE f : f \in Bijection(Class(c), 1..n[c])]
           pairs == UNION {{c} \X (1..n[c]) : c \in C}
           h == [d \in A |-> <<key[d], F[key[d]][d]>>]
<1>1. ASSUME NEW c \in C PROVE F[c] \in Bijection(Class(c), 1..n[c])
  <2>1. IsFiniteSet(Class(c)) /\ n[c] = Cardinality(Class(c))
    BY FS_Subset
  <2>2. n[c] \in Nat
    BY <2>1, FS_CardinalityType
  <2>3. IsFiniteSet(1..n[c]) /\ Cardinality(1..n[c]) = n[c]
    BY <2>2, FS_Interval
  <2>4. ExistsBijection(Class(c), 1..n[c])
    BY <2>1, <2>3, FS_SameCardinalityBij
  <2>5. \E f : f \in Bijection(Class(c), 1..n[c])
    BY <2>4 DEF ExistsBijection
  <2>6. QED
    BY <2>5
<1> HIDE DEF F
<1>2. ASSUME NEW c \in C
      PROVE  /\ F[c] \in [Class(c) -> 1..n[c]]
             /\ \A d, e \in Class(c) : F[c][d] = F[c][e] => d = e
             /\ \A k \in 1..n[c] : \E d \in Class(c) : F[c][d] = k
  BY <1>1, ZenonT(60) DEF Bijection, Injection, Surjection, IsInjective
<1>3. h \in [A -> pairs]
  <2>1. ASSUME NEW d \in A PROVE h[d] \in pairs
    <3>1. key[d] \in C /\ d \in Class(key[d])
      OBVIOUS
    <3>2. F[key[d]][d] \in 1..n[key[d]]
      <4> HIDE DEF h, Class, pairs
      <4>1. F[key[d]] \in [Class(key[d]) -> 1..n[key[d]]]
        BY <3>1, <1>2
      <4>2. QED
        BY <3>1, <4>1
    <3>3. h[d] = <<key[d], F[key[d]][d]>>
      OBVIOUS
    <3> HIDE DEF h, Class
    <3>4. h[d] \in {key[d]} \X (1..n[key[d]])
      BY <3>2, <3>3
    <3>5. QED
      BY <3>1, <3>4
  <2>2. QED
    BY <2>1
<1>4. \A d, e \in A : h[d] = h[e] => d = e
  <2>1. ASSUME NEW d \in A, NEW e \in A, h[d] = h[e] PROVE d = e
    <3>1. key[d] = key[e] /\ F[key[d]][d] = F[key[e]][e]
      BY <2>1
    <3>2. key[d] \in C /\ d \in Class(key[d]) /\ e \in Class(key[d])
      BY <3>1
    <3>3. F[key[d]][d] = F[key[d]][e]
      BY <3>1
    <3> HIDE DEF h, Class, pairs
    <3>4. QED
      BY <3>2, <3>3, <1>2
  <2>2. QED
    BY <2>1
<1>5. \A p \in pairs : \E d \in A : h[d] = p
  <2>1. ASSUME NEW p \in pairs PROVE \E d \in A : h[d] = p
    <3>1. PICK c \in C : p \in {c} \X (1..n[c])
      OBVIOUS
    <3>2. p = <<c, p[2]>> /\ p[2] \in 1..n[c]
      BY <3>1
    <3>3. PICK d \in Class(c) : F[c][d] = p[2]
      BY <3>2, <1>2
    <3>4. h[d] = p
      BY <3>2, <3>3
    <3>5. QED
      BY <3>4
  <2>2. QED
    BY <2>1
<1> HIDE DEF h, pairs
<1>6. ExistsBijection(A, pairs)
  <2>1. h \in Injection(A, pairs)
    BY <1>3, <1>4 DEF Injection, IsInjective
  <2>2. h \in Surjection(A, pairs)
    BY <1>3, <1>5 DEF Surjection
  <2>3. QED
    BY <2>1, <2>2 DEF ExistsBijection, Bijection
<1>7. QED
  BY <1>6, FS_Bijection DEF Together, pairs

\* The headings of a screen, each counting what of its controller's cards it is about.
LEMMA HeadingsAddUp ==
    ASSUME NEW cards, IsFiniteSet(DOMAIN cards), NEW alarming
    PROVE  LET groups == Grouped(cards, alarming)
           IN  /\ Together([c \in DOMAIN groups |-> groups[c].alarm]) = Count(cards, alarming)
               /\ Together([c \in DOMAIN groups |-> groups[c].offline]) = Count(cards, {"offline"})
<1> DEFINE groups == Grouped(cards, alarming)
           C == {ControllerOf[d] : d \in DOMAIN cards}
           Mine(c) == Restrict(cards, {d \in DOMAIN cards : ControllerOf[d] = c})
           Those(ss) == {d \in DOMAIN cards : cards[d].status \in ss}
<1>1. /\ DOMAIN groups = C
      /\ \A c \in C : /\ groups[c].alarm = Count(Mine(c), alarming)
                      /\ groups[c].offline = Count(Mine(c), {"offline"})
  BY DEF Grouped
<1>2. ASSUME NEW ss, NEW n, DOMAIN n = C, \A c \in C : n[c] = Count(Mine(c), ss)
      PROVE  Together(n) = Count(cards, ss)
  <2> DEFINE key == [d \in Those(ss) |-> ControllerOf[d]]
  <2>1. IsFiniteSet(Those(ss))
    BY FS_Subset
  <2>2. key \in [Those(ss) -> C]
    OBVIOUS
  <2>3. ASSUME NEW c \in C PROVE n[c] = Cardinality({d \in Those(ss) : key[d] = c})
    <3>1. {d \in DOMAIN Mine(c) : Mine(c)[d].status \in ss} = {d \in Those(ss) : key[d] = c}
      BY DEF Restrict
    <3>2. Count(Mine(c), ss) = Cardinality({d \in DOMAIN Mine(c) : Mine(c)[d].status \in ss})
      BY DEF Count
    <3>3. QED
      BY <3>1, <3>2, <1>2
  <2> HIDE DEF key, Those, C, Mine
  <2>4. Together(n) = Cardinality(Those(ss))
    BY <2>1, <2>2, <2>3, <1>2, AddedUp
  <2>5. QED
    BY <2>4 DEF Count, Those
<1> HIDE DEF groups, C, Mine, Those
<1>3. QED
  BY <1>1, <1>2 DEF groups

\* Statuses that are not the same are counted apart.
LEMMA CountedApart ==
    ASSUME NEW cards, IsFiniteSet(DOMAIN cards), NEW ss, NEW tt, ss \cap tt = {}
    PROVE  /\ Count(cards, ss) \in Nat /\ Count(cards, tt) \in Nat
           /\ Count(cards, ss \cup tt) = Count(cards, ss) + Count(cards, tt)
<1> DEFINE Those(uu) == {d \in DOMAIN cards : cards[d].status \in uu}
<1>1. \A uu : IsFiniteSet(Those(uu)) /\ Count(cards, uu) = Cardinality(Those(uu))
  BY FS_Subset DEF Count
<1>2. Those(ss \cup tt) = Those(ss) \cup Those(tt) /\ Those(ss) \cap Those(tt) = {}
  OBVIOUS
<1> HIDE DEF Those
<1>3. /\ Cardinality(Those(ss)) \in Nat /\ Cardinality(Those(tt)) \in Nat
      /\ Cardinality(Those(ss \cup tt))
            = Cardinality(Those(ss)) + Cardinality(Those(tt)) - Cardinality({})
  <2>1. IsFiniteSet(Those(ss)) /\ IsFiniteSet(Those(tt))
    BY <1>1
  <2>2. Cardinality(Those(ss)) \in Nat /\ Cardinality(Those(tt)) \in Nat
    BY <2>1, FS_CardinalityType
  <2>3. Cardinality(Those(ss) \cup Those(tt))
          = Cardinality(Those(ss)) + Cardinality(Those(tt)) - Cardinality(Those(ss) \cap Those(tt))
    BY <2>1, FS_Union
  <2>4. QED
    BY <1>2, <2>2, <2>3
<1>4. QED
  BY <1>1, <1>3, FS_EmptySet

LEMMA AddingUp == ReadTypeOK => CountsAddUp
<1> SUFFICES ASSUME ReadTypeOK PROVE CountsAddUp
  OBVIOUS
<1> DEFINE big == get_snapshot(Tables, store)
           mon == _build_snapshot(Tables)
<1>1. IsFiniteSet(DOMAIN big.cards)
  <2>1. DOMAIN big.cards = Live(conf)
    BY ScreenParts
  <2>2. Live(conf) \in SUBSET Detectors
    BY DEF Live
  <2>3. QED
    BY <2>1, <2>2, ReadAssumption, FS_Subset
<1>2. IsFiniteSet(DOMAIN mon.cards)
  <2>1. DOMAIN mon.cards = list_realtime(snap)
    BY ScreenParts
  <2>2. list_realtime(snap) \in SUBSET Detectors
    BY DEF list_realtime
  <2>3. QED
    BY <2>1, <2>2, ReadAssumption, FS_Subset
<1>3. big.summary = _summary(big.cards, Tables)
  BY DEF get_snapshot
<1>4. RenderDataPage(big).metrics = _render_summary(big.summary)
  BY DEF RenderDataPage
<1>5. /\ RenderMonitor(mon).metrics = _build_metrics(mon)
      /\ RenderMonitor(mon).groups = Grouped(mon.cards, POPUP_STATUSES)
  BY DEF RenderMonitor, _group_detectors
<1> HIDE DEF big, mon
<1>6. /\ big.summary.alarm = Count(big.cards, ALARM_STATUSES)
      /\ big.summary.offline = Count(big.cards, {"offline"})
      /\ big.summary.disabled = Count(big.cards, {"disabled"})
      /\ big.summary.total = Cardinality(DOMAIN big.cards)
  BY <1>3 DEF _summary
<1>7. Together([c \in DOMAIN _group_device_cards(big.cards) |-> _group_device_cards(big.cards)[c].alarm])
         = big.summary.alarm
  BY <1>1, <1>6, HeadingsAddUp DEF _group_device_cards
<1>8. ASSUME DOMAIN big.cards # {}
      PROVE  RenderDataPage(big).metrics.running
               + Together([c \in DOMAIN _group_device_cards(big.cards) |->
                              _group_device_cards(big.cards)[c].offline])
               + big.summary.disabled = big.summary.total
  <2>1. Cardinality(DOMAIN big.cards) \in Nat /\ Cardinality(DOMAIN big.cards) # 0
    BY <1>1, <1>8, FS_CardinalityType, FS_EmptySet
  <2>2. Count(big.cards, {"offline"}) \in Nat /\ Count(big.cards, {"disabled"}) \in Nat
    <3>1. {"offline"} \cap {"disabled"} = {}
      OBVIOUS
    <3>2. QED
      BY <1>1, <3>1, CountedApart
  <2>3. RenderDataPage(big).metrics.running
           = big.summary.total - big.summary.offline - big.summary.disabled
    BY <1>4, <1>6, <2>1 DEF _render_summary
  <2>4. Together([c \in DOMAIN _group_device_cards(big.cards) |->
                     _group_device_cards(big.cards)[c].offline]) = Count(big.cards, {"offline"})
    BY <1>1, HeadingsAddUp DEF _group_device_cards
  <2>5. QED
    BY <1>6, <2>1, <2>2, <2>3, <2>4
<1>9. RenderMonitor(mon).metrics.alarm + RenderMonitor(mon).metrics.fault
         = Together([c \in DOMAIN RenderMonitor(mon).groups |-> RenderMonitor(mon).groups[c].alarm])
  <2>1. Together([c \in DOMAIN RenderMonitor(mon).groups |-> RenderMonitor(mon).groups[c].alarm])
           = Count(mon.cards, POPUP_STATUSES)
    BY <1>2, <1>5, HeadingsAddUp
  <2>2. ALARM_STATUSES \cap {"fault"} = {}
    BY DEF ALARM_STATUSES
  <2>3. Count(mon.cards, POPUP_STATUSES)
           = Count(mon.cards, ALARM_STATUSES) + Count(mon.cards, {"fault"})
    BY <1>2, <2>2, CountedApart DEF POPUP_STATUSES
  <2>4. /\ RenderMonitor(mon).metrics.alarm = Count(mon.cards, ALARM_STATUSES)
        /\ RenderMonitor(mon).metrics.fault = Count(mon.cards, {"fault"})
    BY <1>5 DEF _build_metrics
  <2>5. QED
    BY <2>1, <2>3, <2>4
<1>10. QED
  BY <1>7, <1>8, <1>9 DEF CountsAddUp, big, mon

\* Whatever the number of detectors, controllers, rows and changes: the bigscreen, the
\* map, the monitoring page and the API tell the same of a detector between two cycles,
\* show every active alarm but those of deleted detectors, and count alike.
THEOREM ScreensAgreeAlways == ReadSpec => []ScreensAgree
<1>1. ReadTypeOK /\ SameEverywhere /\ AlarmsAreShown => ScreensAgree
  BY AddingUp DEF ScreensAgree
<1>2. QED
  BY <1>1, ReadTypeCorrect, SameEverywhereAlways, AlarmsAreShownAlways, PTL
-----------------------------------------------------------------------------
(* The reminders of the maintenance page, for every set of plans and dates. *)

DetectorRow == [created : Nat, life : Dates \union {Absent, Unreadable},
                cycle : Cycles \union {Absent}, deleted : BOOLEAN]

\* What the reminders are computed from.
Configured ==
    /\ now \in Nat
    /\ detectors \in [DetectorIds -> DetectorRow \union {Absent}]
    /\ plans \in [Plans -> Plan \union {Absent}]

\* Card c is what the plan it names says at instant t.
CardOfPlan(c, t) ==
    LET plan == plans[c.plan]
    IN  /\ plan.status = "active" /\ c.detector = plan.detector
        /\ c.days = DaysUntil(2 * plan.due - t) /\ t >= 2 * plan.due - 2 * plan.remind

\* The title of a card says what its text does.
TitledByDays(c) == c.status = "overdue" <=> c.days < 0

\* What list_due_reminders returns, if it returns.
ListOfNow(cards) ==
    /\ cards \subseteq ReminderCard
    /\ \A c \in cards :
          /\ TitledByDays(c)
          /\ c.plan # Absent => c.plan \in Plans /\ plans[c.plan] # Absent /\ CardOfPlan(c, now)
    /\ \A p \in Plans :
          /\ plans[p] # Absent /\ plans[p].status = "active" /\ Present(plans[p].detector)
          /\ now >= 2 * plans[p].due - 2 * plans[p].remind
          => \E c \in cards : /\ c.plan = p /\ c.days = DaysUntil(2 * plans[p].due - now)
                              /\ c.status = "overdue" <=> 2 * plans[p].due < now

LEMMA DaysLeft ==
    ASSUME NEW a \in Int
    PROVE  /\ DaysUntil(a) \in Int /\ (DaysUntil(a) < 0 <=> a < 0)
           /\ \A b \in Int : a <= b => DaysUntil(a) <= DaysUntil(b)
BY DEF DaysUntil, Ceil

LEMMA Ranges ==
    /\ \A x \in Dates \union Cycles \union Reminds : x \in Nat /\ 2 * x \in Nat
    /\ SensorLifeRemindDays \in Nat /\ CalibrationRemindDays \in Nat
    /\ MaxNow \in Nat /\ MaxSaves \in Nat
<1>1. \A x \in Dates \union Cycles \union Reminds : x \in Nat
  BY MaintenanceAssumption
<1>2. \A x \in Nat : 2 * x \in Nat
  OBVIOUS
<1>3. QED
  BY <1>1, <1>2, MaintenanceAssumption

SourceNames == {"detector.sensor_life", "detector.calibration", "maintenance_plan"}

\* Cards of a date that is due: who they are of, and when there is one.
CardsSay(cards, d, plan, due, remind) ==
    /\ \A c \in cards :
          /\ c \in ReminderCard /\ TitledByDays(c) /\ c.plan = plan /\ c.detector = d
          /\ c.days = DaysUntil(due - now) /\ now >= due - 2 * remind
    /\ now >= due - 2 * remind =>
          \E c \in cards : /\ c.plan = plan /\ c.days = DaysUntil(due - now)
                           /\ c.status = "overdue" <=> due < now

LEMMA BuiltReminder ==
    ASSUME now \in Nat, NEW due \in Nat, NEW remind \in Nat, NEW source \in SourceNames,
           NEW d \in DetectorIds, NEW plan \in Plans \union {Absent}
    PROVE  CardsSay(_build_reminder(source, d, plan, due, remind), d, plan, due, remind)
<1> DEFINE days == DaysUntil(due - now)
           status == IF due < now THEN "overdue" ELSE "due_soon"
           c == [source |-> source, detector |-> d, plan |-> plan, status |-> status, days |-> days]
           cards == _build_reminder(source, d, plan, due, remind)
<1>1. days \in Int /\ (days < 0 <=> due < now)
  <2>1. due - now \in Int /\ (due - now < 0 <=> due < now)
    OBVIOUS
  <2>2. QED
    BY <2>1, DaysLeft
<1>2. cards = IF now < due - 2 * remind THEN {} ELSE {c}
  BY DEF _build_reminder
<1>3. c \in ReminderCard
  BY <1>1 DEF ReminderCard, SourceNames
<1>4. TitledByDays(c) /\ (c.status = "overdue" <=> due < now)
  BY <1>1 DEF TitledByDays
<1>5. now < due - 2 * remind <=> ~ (now >= due - 2 * remind)
  OBVIOUS
<1> HIDE DEF days, status
<1>6. c.plan = plan /\ c.detector = d /\ c.days = days
  OBVIOUS
<1> HIDE DEF c, cards
<1>7. QED
  BY <1>2, <1>3, <1>4, <1>5, <1>6 DEF days, cards, CardsSay

LEMMA DetectorReminders ==
    ASSUME Configured, Readable, NEW d \in DetectorIds, Present(d)
    PROVE  \A c \in _detector_reminders(d) : c \in ReminderCard /\ TitledByDays(c) /\ c.plan = Absent
<1> DEFINE row == detectors[d]
           lifeCards == _build_reminder("detector.sensor_life", d, Absent,
                                        2 * row.life, SensorLifeRemindDays)
           dueCards == _build_reminder("detector.calibration", d, Absent,
                                       row.created + 2 * row.cycle, CalibrationRemindDays)
<1>1. row \in DetectorRow /\ row.life # Unreadable /\ now \in Nat
  BY DEF Configured, Readable, Present
<1>2. SensorLifeRemindDays \in Nat /\ CalibrationRemindDays \in Nat
  BY Ranges
<1>3. \A c \in _detector_reminders(d) : \/ row.life # Absent /\ c \in lifeCards
                                        \/ row.cycle # Absent /\ c \in dueCards
  BY DEF _detector_reminders
<1>4. row.life # Absent => \A c \in lifeCards : c \in ReminderCard /\ TitledByDays(c) /\ c.plan = Absent
  <2>1. SUFFICES ASSUME row.life # Absent
                 PROVE  \A c \in lifeCards : c \in ReminderCard /\ TitledByDays(c) /\ c.plan = Absent
    OBVIOUS
  <2>2. row.life \in Dates
    BY <1>1, <2>1 DEF DetectorRow
  <2>3. 2 * row.life \in Nat
    BY <2>2, Ranges
  <2>4. CardsSay(lifeCards, d, Absent, 2 * row.life, SensorLifeRemindDays)
    BY <1>1, <1>2, <2>3, BuiltReminder DEF SourceNames
  <2>5. QED
    BY <2>4 DEF CardsSay
<1>5. row.cycle # Absent => \A c \in dueCards : c \in ReminderCard /\ TitledByDays(c) /\ c.plan = Absent
  <2>1. SUFFICES ASSUME row.cycle # Absent
                 PROVE  \A c \in dueCards : c \in ReminderCard /\ TitledByDays(c) /\ c.plan = Absent
    OBVIOUS
  <2>2. row.cycle \in Cycles /\ row.created \in Nat
    BY <1>1, <2>1 DEF DetectorRow
  <2>3. 2 * row.cycle \in Nat
    BY <2>2, Ranges
  <2>4. row.created + 2 * row.cycle \in Nat
    BY <2>2, <2>3
  <2>5. CardsSay(dueCards, d, Absent, row.created + 2 * row.cycle, CalibrationRemindDays)
    BY <1>1, <1>2, <2>4, BuiltReminder DEF SourceNames
  <2>6. QED
    BY <2>5 DEF CardsSay
<1>6. QED
  BY <1>3, <1>4, <1>5

LEMMA PlanReminder ==
    ASSUME Configured, NEW p \in Plans, plans[p] # Absent
    PROVE  /\ \A c \in _plan_reminder(p) :
                 c \in ReminderCard /\ TitledByDays(c) /\ c.plan = p /\ CardOfPlan(c, now)
           /\ /\ plans[p].status = "active" /\ Present(plans[p].detector)
              /\ now >= 2 * plans[p].due - 2 * plans[p].remind
              => \E c \in _plan_reminder(p) : /\ c.plan = p /\ c.days = DaysUntil(2 * plans[p].due - now)
                                              /\ c.status = "overdue" <=> 2 * plans[p].due < now
<1>1. plans[p] \in Plan /\ now \in Nat
  BY DEF Configured
<1>2. plans[p].detector \in DetectorIds /\ 2 * plans[p].due \in Nat /\ plans[p].remind \in Nat
  <2>1. plans[p].detector \in DetectorIds /\ plans[p].due \in Dates /\ plans[p].remind \in Reminds
    BY <1>1 DEF Plan
  <2>2. QED
    BY <2>1, Ranges
<1> DEFINE due == 2 * plans[p].due
           remind == plans[p].remind
           cards == _build_reminder("maintenance_plan", plans[p].detector, p, due, remind)
<1>3. CardsSay(cards, plans[p].detector, p, due, remind)
  <2>1. "maintenance_plan" \in SourceNames /\ p \in Plans \union {Absent} /\ now \in Nat
    BY <1>1 DEF SourceNames
  <2> HIDE DEF due, remind
  <2>2. due \in Nat /\ remind \in Nat
    BY <1>2 DEF due, remind
  <2>3. QED
    BY <1>2, <2>1, <2>2, BuiltReminder
<1>4. _plan_reminder(p) = IF plans[p].status # "active" \/ ~ Present(plans[p].detector)
                            THEN {} ELSE cards
  BY DEF _plan_reminder
<1> HIDE DEF cards
<1>5. QED
  BY <1>3, <1>4 DEF CardOfPlan, CardsSay

LEMMA TheList == Configured /\ Readable => ListOfNow(list_due_reminders)
<1>1. SUFFICES ASSUME Configured, Readable PROVE ListOfNow(list_due_reminders)
  OBVIOUS
<1>2. ASSUME NEW c \in list_due_reminders
      PROVE  \/ \E d \in DetectorIds : Present(d) /\ c \in _detector_reminders(d)
             \/ \E p \in Plans : plans[p] # Absent /\ c \in _plan_reminder(p)
  BY <1>2 DEF list_due_reminders
<1>3. \A p \in Plans : plans[p] # Absent => _plan_reminder(p) \subseteq list_due_reminders
  BY DEF list_due_reminders
<1>4. ASSUME NEW c \in list_due_reminders
      PROVE  /\ c \in ReminderCard /\ TitledByDays(c)
             /\ c.plan # Absent => c.plan \in Plans /\ plans[c.plan] # Absent /\ CardOfPlan(c, now)
  BY <1>1, <1>2, DetectorReminders, PlanReminder
<1>5. ASSUME NEW p \in Plans, plans[p] # Absent, plans[p].status = "active",
             Present(plans[p].detector), now >= 2 * plans[p].due - 2 * plans[p].remind
      PROVE  \E c \in list_due_reminders :
                /\ c.plan = p /\ c.days = DaysUntil(2 * plans[p].due - now)
                /\ c.status = "overdue" <=> 2 * plans[p].due < now
  BY <1>1, <1>3, <1>5, PlanReminder
<1>6. QED
  BY <1>4, <1>5 DEF ListOfNow

MaintenancePages ==
    [reminders : [cards : SUBSET ReminderCard, cards_error : BOOLEAN],
     plans : [rows : [Plans -> Plan \union {Absent}], rows_error : BOOLEAN,
              selected : Plans \union {Absent}],
     loaded : BOOLEAN]
Dialogs == [plan : Plans \union {Absent}, changed : SUBSET Fields, form : Plan]

\* The rows on the page are those of the table, or none.
PlanRowsInv ==
    \A p \in Plans : page.plans.rows[p] # Absent => page.plans.rows[p] = plans[p]

\* The cards were true when they were loaded; on a fresh page they still are.
CardsInv ==
    /\ \A c \in page.reminders.cards :
          /\ TitledByDays(c)
          /\ c.plan # Absent => /\ c.plan \in Plans /\ plans[c.plan] # Absent
                                /\ page.plans.rows[c.plan] # Absent =>
                                      \E t \in 0..now : CardOfPlan(c, t)
    /\ fresh /\ ~ page.reminders.cards_error => ListOfNow(page.reminders.cards)

\* The form differs from the plan it edits in what the user has changed.
Unchanged(filled, plan, f) == filled[f] = plan[f] \/ (f = "remind" /\ plan.remind = 0)
DialogInv ==
    dialog # Absent /\ dialog.plan # Absent =>
        /\ plans[dialog.plan] \in Plan
        /\ \A f \in Fields \ dialog.changed : Unchanged(dialog.form, plans[dialog.plan], f)

MaintenanceInv ==
    /\ Configured /\ now \in 0..MaxNow /\ saves \in 0..MaxSaves /\ fresh \in BOOLEAN
    /\ page \in MaintenancePages
    /\ dialog # Absent => dialog \in Dialogs
    /\ page.plans.selected # Absent => page.plans.rows[page.plans.selected] # Absent
    /\ PlanRowsInv /\ CardsInv /\ DialogInv

LEMMA MaintenanceInit == Init => MaintenanceInv
<1>1. SUFFICES ASSUME Init PROVE MaintenanceInv
  OBVIOUS
<1> DEFINE none == [p \in Plans |-> Absent]
           pg == [reminders |-> [cards |-> {}, cards_error |-> FALSE],
                  plans |-> [rows |-> none, rows_error |-> FALSE, selected |-> Absent],
                  loaded |-> FALSE]
<1>2. /\ page = pg /\ plans = none /\ now = 0 /\ dialog = Absent /\ fresh = FALSE /\ saves = 0
      /\ detectors = [d \in DetectorIds |-> Absent]
  BY <1>1 DEF Init
<1>3. none \in [Plans -> Plan \union {Absent}]
  OBVIOUS
<1>4. Configured
  <2>1. detectors \in [DetectorIds -> DetectorRow \union {Absent}]
    BY <1>2
  <2>2. QED
    BY <1>2, <1>3, <2>1 DEF Configured
<1>5. now \in 0..MaxNow /\ saves \in 0..MaxSaves /\ fresh \in BOOLEAN
  <2>1. now \in 0..MaxNow /\ saves \in 0..MaxSaves
    BY <1>2, Ranges
  <2>2. fresh \in BOOLEAN
    BY <1>2, Zenon
  <2>3. QED
    BY <2>1, <2>2
<1> HIDE DEF none
<1>6. pg \in MaintenancePages
  BY <1>3 DEF MaintenancePages
<1>7. page.reminders.cards = {} /\ page.plans.rows = plans /\ page.plans.selected = Absent
  BY <1>2
<1>8. PlanRowsInv /\ CardsInv /\ DialogInv
  BY <1>2, <1>7 DEF PlanRowsInv, CardsInv, DialogInv
<1>9. page \in MaintenancePages
  BY <1>2, <1>6
<1>10. QED
  BY <1>2, <1>4, <1>5, <1>7, <1>8, <1>9, Zenon DEF MaintenanceInv

\* Both lists are loaded after whatever reloads the page.
LEMMA Reloaded ==
    ASSUME Configured', reload
    PROVE  /\ page' \in MaintenancePages /\ page'.plans.selected = Absent
           /\ PlanRowsInv' /\ CardsInv'
           /\ ~ page'.reminders.cards_error => ListOfNow(page.reminders.cards)'
<1>1. PICK r1 \in BOOLEAN, r2 \in BOOLEAN :
          page' = [reminders |-> _load_reminders(r1)', plans |-> _load_plans(r2)', loaded |-> TRUE]
  BY DEF reload
<1>2. Configured' /\ Readable' => ListOfNow(list_due_reminders)'
  BY TheList, PTL
<1>3. /\ page'.reminders = _load_reminders(r1)' /\ page'.plans = _load_plans(r2)'
      /\ page'.loaded = TRUE
  BY <1>1
<1>4. /\ page'.reminders.cards = IF r1 /\ Readable' THEN list_due_reminders' ELSE {}
      /\ page'.reminders.cards_error = (~ r1 \/ ~ Readable')
      /\ page'.reminders = [cards |-> page'.reminders.cards, cards_error |-> page'.reminders.cards_error]
  BY <1>3 DEF _load_reminders
<1>5. /\ page'.plans.rows = IF r2 THEN plans' ELSE [p \in Plans |-> Absent]
      /\ page'.plans.selected = Absent
      /\ page'.plans = [rows |-> page'.plans.rows, rows_error |-> ~ r2, selected |-> Absent]
  BY <1>3 DEF _load_plans
<1>6. ~ page'.reminders.cards_error => ListOfNow(page.reminders.cards)'
  <2>1. SUFFICES ASSUME r1, Readable' PROVE ListOfNow(page.reminders.cards)'
    BY <1>4
  <2>2. page'.reminders.cards = list_due_reminders'
    BY <1>4, <2>1
  <2>3. QED
    BY <1>2, <2>1, <2>2 DEF ListOfNow
<1>7. \A c \in page'.reminders.cards :
          /\ c \in ReminderCard /\ TitledByDays(c)
          /\ c.plan # Absent => c.plan \in Plans /\ plans'[c.plan] # Absent /\ CardOfPlan(c, now)'
  <2>1. SUFFICES ASSUME r1, Readable', NEW c \in page'.reminders.cards
        PROVE  /\ c \in ReminderCard /\ TitledByDays(c)
               /\ c.plan # Absent => c.plan \in Plans /\ plans'[c.plan] # Absent /\ CardOfPlan(c, now)'
    BY <1>4
  <2>2. c \in list_due_reminders'
    BY <1>4, <2>1
  <2>3. QED
    BY <1>2, <2>1, <2>2 DEF ListOfNow
<1>8. now' \in 0..now'
  BY DEF Configured
<1>9. page' \in MaintenancePages
  <2>1. page'.reminders.cards \subseteq ReminderCard /\ page'.reminders.cards_error \in BOOLEAN
    BY <1>4, <1>7
  <2>2. page'.plans.rows \in [Plans -> Plan \union {Absent}]
    BY <1>5 DEF Configured
  <2>3. page' = [reminders |-> page'.reminders, plans |-> page'.plans, loaded |-> TRUE]
    BY <1>1
  <2> DEFINE cards == page'.reminders.cards
             failed == page'.reminders.cards_error
             noRows == ~ r2
             rows_ == page'.plans.rows
  <2> HIDE DEF cards, failed, noRows, rows_
  <2>4. page'.reminders \in [cards : SUBSET ReminderCard, cards_error : BOOLEAN]
    <3>1. page'.reminders = [cards |-> cards, cards_error |-> failed]
      BY <1>4 DEF cards, failed
    <3>2. cards \in SUBSET ReminderCard /\ failed \in BOOLEAN
      BY <2>1 DEF cards, failed
    <3>3. QED
      BY <3>1, <3>2
  <2>5. page'.plans \in [rows : [Plans -> Plan \union {Absent}], rows_error : BOOLEAN,
                        selected : Plans \union {Absent}]
    <3>1. page'.plans = [rows |-> rows_, rows_error |-> noRows, selected |-> Absent]
      BY <1>5 DEF rows_, noRows
    <3>2. rows_ \in [Plans -> Plan \union {Absent}] /\ noRows \in BOOLEAN
      BY <2>2 DEF rows_, noRows
    <3>3. QED
      BY <3>1, <3>2
  <2> DEFINE reminders == page'.reminders
             plans_ == page'.plans
  <2> HIDE DEF reminders, plans_
  <2>6. page' = [reminders |-> reminders, plans |-> plans_, loaded |-> TRUE]
    BY <2>3 DEF reminders, plans_
  <2>7. [reminders |-> reminders, plans |-> plans_, loaded |-> TRUE] \in MaintenancePages
    BY <2>4, <2>5 DEF MaintenancePages, reminders, plans_
  <2>8. QED
    BY <2>6, <2>7
<1>10. PlanRowsInv'
  BY <1>5 DEF PlanRowsInv
<1>11. CardsInv'
  BY <1>6, <1>7, <1>8 DEF CardsInv
<1>12. QED
  BY <1>5, <1>6, <1>9, <1>10, <1>11

LEMMA ReloadOnly ==
    ASSUME MaintenanceInv, refresh PROVE MaintenanceInv'
<1>1. Configured' /\ reload
  BY DEF refresh, MaintenanceInv, Configured
<1>2. page' \in MaintenancePages /\ page'.plans.selected = Absent /\ PlanRowsInv' /\ CardsInv'
  BY <1>1, Reloaded
<1>3. DialogInv' /\ (dialog' # Absent => dialog' \in Dialogs)
  BY DEF refresh, DialogInv
<1>4. now' \in 0..MaxNow /\ saves' \in 0..MaxSaves /\ fresh' \in BOOLEAN
  BY DEF refresh, MaintenanceInv
<1>5. QED
  BY <1>1, <1>2, <1>3, <1>4 DEF MaintenanceInv

LEMMA Selects ==
    ASSUME MaintenanceInv, NEW p \in Plans, _selection_changed(p) PROVE MaintenanceInv'
<1>1. /\ page'.reminders = page.reminders /\ page'.plans.rows = page.plans.rows
      /\ page'.plans.selected = p /\ page' \in MaintenancePages
  BY DEF _selection_changed, MaintenanceInv, MaintenancePages
<1>2. UNCHANGED <<now, detectors, plans, dialog, fresh, saves>> /\ page.plans.rows[p] # Absent
  BY DEF _selection_changed
<1>3. Configured' /\ DialogInv' /\ now' \in 0..MaxNow /\ saves' \in 0..MaxSaves
      /\ fresh' \in BOOLEAN /\ (dialog' # Absent => dialog' \in Dialogs)
  BY <1>2 DEF MaintenanceInv, Configured, DialogInv
<1>4. PlanRowsInv'
  BY <1>1, <1>2 DEF MaintenanceInv, PlanRowsInv
<1>5. CardsInv'
  BY <1>1, <1>2 DEF MaintenanceInv, CardsInv, CardOfPlan, ListOfNow, Present
<1>6. QED
  BY <1>1, <1>2, <1>3, <1>4, <1>5 DEF MaintenanceInv

LEMMA FieldsOfPlan ==
    ASSUME NEW plan \in Plan
    PROVE  /\ _apply_plan(plan) \in Plan
           /\ \A f \in Fields : Unchanged(_apply_plan(plan), plan, f)
<1>1. DefaultRemindDays \in Reminds
  BY MaintenanceAssumption
<1>2. QED
  BY <1>1 DEF _apply_plan, Plan, Fields, Unchanged

LEMMA Dialogues ==
    ASSUME MaintenanceInv,
           \/ open_create_dialog \/ open_edit_dialog \/ reject
           \/ \E field \in Fields, filled \in Plan : change(field, filled)
    PROVE  MaintenanceInv'
<1>1. UNCHANGED <<now, detectors, plans, page, fresh, saves>>
  BY DEF open_create_dialog, open_edit_dialog, reject, change
<1>2. (dialog' # Absent => dialog' \in Dialogs) /\ DialogInv'
  <2>1. CASE open_create_dialog
    <3>1. PICK d \in DetectorIds :
              dialog' = [plan |-> Absent, changed |-> {},
                         form |-> [detector |-> d, due |-> now \div 2,
                                   remind |-> DefaultRemindDays, status |-> "active"]]
      BY <2>1 DEF open_create_dialog
    <3>2. [detector |-> d, due |-> now \div 2, remind |-> DefaultRemindDays, status |-> "active"] \in Plan
      BY <2>1, MaintenanceAssumption DEF open_create_dialog, Plan, PLAN_STATUSES
    <3>3. QED
      BY <3>1, <3>2 DEF Dialogs, DialogInv
  <2>2. CASE open_edit_dialog
    <3> DEFINE p == page.plans.selected
               row == page.plans.rows[p]
    <3>1. p # Absent /\ p \in Plans /\ row \in Plan /\ row = plans[p]
      BY <2>2 DEF open_edit_dialog, MaintenanceInv, MaintenancePages, PlanRowsInv
    <3>2. dialog' = [plan |-> p, changed |-> {}, form |-> _apply_plan(row)]
      BY <2>2 DEF open_edit_dialog
    <3>3. _apply_plan(row) \in Plan /\ \A f \in Fields : Unchanged(_apply_plan(row), row, f)
      BY <3>1, FieldsOfPlan
    <3> HIDE DEF p, row
    <3>4. QED
      BY <1>1, <3>1, <3>2, <3>3 DEF Dialogs, DialogInv
  <2>3. CASE reject
    BY <2>3 DEF reject, DialogInv
  <2>4. ASSUME NEW field \in Fields, NEW filled \in Plan, change(field, filled)
        PROVE  (dialog' # Absent => dialog' \in Dialogs) /\ DialogInv'
    <3>1. dialog \in Dialogs /\ dialog # Absent
      BY <2>4 DEF change, MaintenanceInv
    <3>2. dialog' = [dialog EXCEPT !.form = filled, !.changed = @ \union {field}]
      BY <2>4 DEF change
    <3>3. /\ dialog'.plan = dialog.plan /\ dialog'.form = filled
          /\ dialog'.changed = dialog.changed \union {field} /\ dialog' \in Dialogs
      BY <3>1, <3>2 DEF Dialogs
    <3>4. \A f \in Fields \ dialog'.changed : f \notin dialog.changed /\ filled[f] = dialog.form[f]
      BY <2>4, <3>3 DEF change
    <3>5. DialogInv'
      BY <1>1, <3>1, <3>3, <3>4 DEF DialogInv, MaintenanceInv, Unchanged
    <3>6. QED
      BY <3>3, <3>5
  <2>5. QED
    BY <2>1, <2>2, <2>3, <2>4
<1>3. Configured' /\ PlanRowsInv'
  BY <1>1 DEF MaintenanceInv, Configured, PlanRowsInv
<1>4. CardsInv'
  BY <1>1 DEF MaintenanceInv, CardsInv, CardOfPlan, ListOfNow, Present
<1>5. QED
  BY <1>1, <1>2, <1>3, <1>4 DEF MaintenanceInv

\* What a save leaves behind.
LEMMA Submits ==
    ASSUME MaintenanceInv, NEW p \in Plans, submit(p)
    PROVE  /\ MaintenanceInv'
           /\ dialog.form \in Plan /\ plans' = [plans EXCEPT ![p] = dialog.form]
<1>1. dialog \in Dialogs /\ dialog.form \in Plan
  BY DEF submit, create_or_update, MaintenanceInv, Dialogs
<1>2. plans' = [plans EXCEPT ![p] = dialog.form]
  BY DEF submit, create_or_update
<1>3. Configured' /\ reload
  BY <1>1, <1>2 DEF submit, create_or_update, MaintenanceInv, Configured
<1>4. page' \in MaintenancePages /\ page'.plans.selected = Absent /\ PlanRowsInv' /\ CardsInv'
  BY <1>3, Reloaded
<1>5. DialogInv' /\ dialog' = Absent
  BY DEF submit, DialogInv
<1>6. now' \in 0..MaxNow /\ saves' \in 0..MaxSaves /\ fresh' \in BOOLEAN
  BY MaintenanceAssumption DEF submit, MaintenanceInv
<1>7. QED
  BY <1>1, <1>2, <1>3, <1>4, <1>5, <1>6 DEF MaintenanceInv

\* A detector saved or deleted, or time passing: the page is no longer fresh.
LEMMA GoesStale ==
    ASSUME MaintenanceInv, UNCHANGED <<plans, page, dialog>>, now' >= now, fresh' = FALSE,
           Configured', now' \in 0..MaxNow, saves' \in 0..MaxSaves
    PROVE  MaintenanceInv'
<1>1. PlanRowsInv' /\ DialogInv'
  BY DEF MaintenanceInv, PlanRowsInv, DialogInv
<1>2. \A t : t \in 0..now => t \in 0..now'
  BY DEF MaintenanceInv
<1>3. CardsInv'
  BY <1>2 DEF MaintenanceInv, CardsInv, CardOfPlan
<1>4. QED
  BY <1>1, <1>3 DEF MaintenanceInv

LEMMA OutsideThePage ==
    ASSUME MaintenanceInv,
           \/ \E d \in DetectorIds, life \in Dates \union {Absent, Unreadable},
                 cycle \in Cycles \union {Absent} : save_detector(d, life, cycle)
           \/ \E d \in DetectorIds : delete_detector(d)
           \/ HalfADay
    PROVE  MaintenanceInv'
<1>0. MaxSaves \in Nat /\ MaxNow \in Nat /\ saves \in 0..MaxSaves /\ now \in 0..MaxNow
      /\ detectors \in [DetectorIds -> DetectorRow \union {Absent}]
      /\ plans \in [Plans -> Plan \union {Absent}]
  BY MaintenanceAssumption DEF MaintenanceInv, Configured
<1>1. CASE HalfADay
  <2>1. now' = now + 1 /\ now' \in 0..MaxNow /\ saves' \in 0..MaxSaves
    BY <1>0, <1>1 DEF HalfADay
  <2>2. Configured'
    BY <1>0, <1>1, <2>1 DEF HalfADay, Configured
  <2>3. now' >= now
    BY <1>0, <2>1
  <2>4. QED
    BY <1>1, <2>1, <2>2, <2>3, GoesStale DEF HalfADay
<1>2. ASSUME NEW d \in DetectorIds, delete_detector(d) PROVE MaintenanceInv'
  <2>1. detectors[d] \in DetectorRow
    BY <1>0, <1>2 DEF delete_detector, Present
  <2>2. detectors' \in [DetectorIds -> DetectorRow \union {Absent}]
    BY <1>0, <1>2, <2>1 DEF delete_detector, DetectorRow
  <2>3. UNCHANGED <<now, plans, page, dialog>> /\ fresh' = FALSE /\ saves' \in 0..MaxSaves
    BY <1>0, <1>2 DEF delete_detector
  <2>4. Configured' /\ now' >= now /\ now' \in 0..MaxNow
    BY <1>0, <2>2, <2>3 DEF Configured
  <2>5. QED
    BY <2>3, <2>4, GoesStale
<1>3. ASSUME NEW d \in DetectorIds, NEW life \in Dates \union {Absent, Unreadable},
             NEW cycle \in Cycles \union {Absent}, save_detector(d, life, cycle)
      PROVE  MaintenanceInv'
  <2>1. detectors[d] # Absent => detectors[d] \in DetectorRow
    BY <1>0
  <2> DEFINE created == IF detectors[d] = Absent THEN now ELSE detectors[d].created
  <2>2. created \in Nat
    BY <1>0, <2>1 DEF DetectorRow
  <2>3. detectors' = [detectors EXCEPT ![d] = [created |-> created, life |-> life,
                                               cycle |-> cycle, deleted |-> FALSE]]
    BY <1>3 DEF save_detector
  <2> HIDE DEF created
  <2>4. detectors' \in [DetectorIds -> DetectorRow \union {Absent}]
    BY <1>0, <2>2, <2>3 DEF DetectorRow
  <2>5. UNCHANGED <<now, plans, page, dialog>> /\ fresh' = FALSE /\ saves' \in 0..MaxSaves
    BY <1>0, <1>3 DEF save_detector
  <2>6. Configured' /\ now' >= now /\ now' \in 0..MaxNow
    BY <1>0, <2>4, <2>5 DEF Configured
  <2>7. QED
    BY <2>5, <2>6, GoesStale
<1>4. QED
  BY <1>1, <1>2, <1>3

LEMMA MaintenanceStep ==
    MaintenanceInv /\ [Next]_vars => MaintenanceInv'
<1>1. SUFFICES ASSUME MaintenanceInv, [Next]_vars PROVE MaintenanceInv'
  OBVIOUS
<1>2. CASE UNCHANGED vars
  BY <1>1, <1>2 DEF vars, MaintenanceInv, Configured, PlanRowsInv, CardsInv, CardOfPlan, ListOfNow,
                    Present, DialogInv
<1>3. QED
  BY <1>1, <1>2, ReloadOnly, Selects, Dialogues, Submits, OutsideThePage DEF Next

LEMMA TrueCards == MaintenanceInv => CardsAreTrue
<1>1. SUFFICES ASSUME MaintenanceInv PROVE CardsAreTrue
  OBVIOUS
<1>2. \A d \in DetectorIds : detectors[d] # Absent => detectors[d] \in DetectorRow
  BY <1>1 DEF MaintenanceInv, Configured
<1>3. /\ page.reminders.cards \subseteq ReminderCard
      /\ page.plans.rows \in [Plans -> Plan \union {Absent}]
  BY <1>1 DEF MaintenanceInv, MaintenancePages
<1>4. TypeOK
  BY <1>1, <1>2, <1>3 DEF MaintenanceInv, Configured, DetectorRow, Dialogs, TypeOK
<1>5. OverdueIsShown
  <2>1. SUFFICES ASSUME fresh, ~ page.reminders.cards_error, NEW p \in Plans,
                        plans[p] # Absent, plans[p].status = "active",
                        Present(plans[p].detector), now > 2 * plans[p].due
                 PROVE  \E c \in page.reminders.cards : c.plan = p /\ c.status = "overdue"
    BY DEF OverdueIsShown
  <2>2. plans[p] \in Plan /\ now \in Nat
    BY <1>1, <2>1 DEF MaintenanceInv, Configured
  <2>3. plans[p].due \in Nat /\ plans[p].remind \in Nat
    BY <2>2, MaintenanceAssumption DEF Plan
  <2>4. now >= 2 * plans[p].due - 2 * plans[p].remind /\ 2 * plans[p].due < now
    BY <2>1, <2>2, <2>3
  <2>5. ListOfNow(page.reminders.cards)
    BY <1>1, <2>1 DEF MaintenanceInv, CardsInv
  <2>6. QED
    BY <2>1, <2>4, <2>5 DEF ListOfNow
<1>6. CardsAgree
  BY <1>1 DEF MaintenanceInv, CardsInv, CardsAgree, TitledByDays
<1>7. QED
  BY <1>4, <1>5, <1>6 DEF CardsAreTrue

\* For every set of plans, detectors and dates: what is overdue is on a page just
\* loaded, and the title of a card does not contradict its text.
THEOREM CardsAreTrueAlways == Spec => []CardsAreTrue
BY MaintenanceInit, MaintenanceStep, TrueCards, PTL DEF Spec

\* A plan keeps its row; its row changes only when a dialog is saved for it.
LEMMA PlansStay ==
    ASSUME MaintenanceInv, [Next]_vars
    PROVE  \A p \in Plans :
              /\ plans[p] # Absent => plans'[p] # Absent
              /\ plans'[p] # plans[p] => submit(p)
<1>1. plans \in [Plans -> Plan \union {Absent}]
  BY DEF MaintenanceInv, Configured
<1>2. CASE UNCHANGED plans
  BY <1>2
<1>3. ASSUME NEW p \in Plans, submit(p)
      PROVE  \A q \in Plans : /\ plans[q] # Absent => plans'[q] # Absent
                              /\ plans'[q] # plans[q] => q = p
  BY <1>1, <1>3, Submits, MaintenanceAssumption
<1>4. CASE \E p \in Plans : submit(p)
  BY <1>3, <1>4
<1>5. QED
  BY <1>2, <1>4 DEF Next, vars, refresh, _selection_changed, open_create_dialog,
     open_edit_dialog, change, reject, save_detector, delete_detector, HalfADay

LEMMA Grows ==
    MaintenanceInv /\ [Next]_vars =>
        [page'.reminders # page.reminders
           /\ ~page.reminders.cards_error /\ ~page'.reminders.cards_error =>
         \A c \in page.reminders.cards :
           c.plan # Absent =>
            (plans'[c.plan] = page.plans.rows[c.plan] /\ Present(c.detector)'
             => \E e \in page'.reminders.cards : e.plan = c.plan /\ e.days <= c.days)]_vars
<1>1. SUFFICES ASSUME MaintenanceInv, [Next]_vars,
                      page'.reminders # page.reminders, ~ page'.reminders.cards_error,
                      NEW c \in page.reminders.cards, c.plan # Absent,
                      plans'[c.plan] = page.plans.rows[c.plan], Present(c.detector)'
               PROVE  \E e \in page'.reminders.cards : e.plan = c.plan /\ e.days <= c.days
  OBVIOUS
<1> DEFINE p == c.plan
<1>2. /\ p \in Plans /\ plans[p] # Absent
      /\ page.plans.rows[p] # Absent => \E t \in 0..now : CardOfPlan(c, t)
  BY <1>1 DEF MaintenanceInv, CardsInv
<1>3. plans'[p] # Absent
  BY <1>1, <1>2, PlansStay
<1>4. plans'[p] = plans[p] /\ page.plans.rows[p] # Absent
  BY <1>1, <1>2, <1>3 DEF MaintenanceInv, PlanRowsInv
<1>5. PICK t \in 0..now : CardOfPlan(c, t)
  BY <1>2, <1>4
<1>6. now \in Nat /\ plans[p] \in Plan
  BY <1>1, <1>2 DEF MaintenanceInv, Configured
<1>7. plans[p].due \in Nat /\ plans[p].remind \in Nat
  BY <1>6, MaintenanceAssumption DEF Plan
<1>8. ListOfNow(page.reminders.cards)' /\ now' = now
  <2>1. CASE refresh
    <3>1. Configured' /\ reload /\ now' = now
      BY <1>1, <2>1 DEF refresh, MaintenanceInv, Configured
    <3>2. QED
      BY <1>1, <3>1, Reloaded
  <2>2. ASSUME NEW q \in Plans, submit(q)
        PROVE  ListOfNow(page.reminders.cards)' /\ now' = now
    <3>1. Configured' /\ reload /\ now' = now
      BY <1>1, <2>2, Submits DEF submit, create_or_update, MaintenanceInv
    <3>2. QED
      BY <1>1, <3>1, Reloaded
  <2>3. CASE page'.reminders = page.reminders
    BY <1>1, <2>3
  <2>4. ASSUME NEW q \in Plans, _selection_changed(q) PROVE page'.reminders = page.reminders
    BY <1>1, <2>4 DEF _selection_changed, MaintenanceInv, MaintenancePages
  <2>5. QED
    BY <1>1, <2>1, <2>2, <2>3, <2>4 DEF Next, vars, open_create_dialog, open_edit_dialog,
       change, reject, save_detector, delete_detector, HalfADay
<1>9. /\ plans[p].status = "active" /\ c.detector = plans[p].detector
      /\ c.days = DaysUntil(2 * plans[p].due - t) /\ t >= 2 * plans[p].due - 2 * plans[p].remind
  BY <1>5 DEF CardOfPlan
<1>10. t \in Int /\ t <= now
  BY <1>5, <1>6
<1>11. now' >= 2 * plans'[p].due - 2 * plans'[p].remind
  BY <1>4, <1>6, <1>7, <1>8, <1>9, <1>10
<1>12. PICK e \in page'.reminders.cards :
           e.plan = p /\ e.days = DaysUntil(2 * plans'[p].due - now')
  BY <1>1, <1>2, <1>3, <1>4, <1>8, <1>9, <1>11 DEF ListOfNow
<1>13. DaysUntil(2 * plans[p].due - now) <= DaysUntil(2 * plans[p].due - t)
  <2>1. 2 * plans[p].due - now \in Int /\ 2 * plans[p].due - t \in Int
        /\ 2 * plans[p].due - now <= 2 * plans[p].due - t
    BY <1>6, <1>7, <1>10
  <2>2. QED
    BY <2>1, DaysLeft
<1>14. QED
  BY <1>4, <1>8, <1>9, <1>12, <1>13

\* Whoever loads the page again finds a plan nobody touched still on the list, and not
\* less urgent than before.
THEOREM UrgencyOnlyGrowsAlways == Spec => UrgencyOnlyGrows
BY MaintenanceInit, MaintenanceStep, Grows, PTL DEF Spec, UrgencyOnlyGrows

LEMMA Keeps ==
    MaintenanceInv /\ [Next]_vars =>
        [\A p \in Plans :
           plans[p] # Absent /\ dialog # Absent /\ plans'[p] # plans[p] =>
             \A f \in Fields \ dialog.changed :
                 plans'[p][f] = plans[p][f] \/ (f = "remind" /\ plans[p].remind = 0)]_vars
<1>1. SUFFICES ASSUME MaintenanceInv, [Next]_vars, NEW p \in Plans,
                      plans[p] # Absent, dialog # Absent, plans'[p] # plans[p],
                      NEW f \in Fields \ dialog.changed
               PROVE  plans'[p][f] = plans[p][f] \/ (f = "remind" /\ plans[p].remind = 0)
  OBVIOUS
<1>2. submit(p)
  BY <1>1, PlansStay
<1>3. dialog.plan # Absent /\ dialog.plan = p
  BY <1>1, <1>2 DEF submit
<1>4. plans'[p] = dialog.form
  BY <1>1, <1>2, Submits DEF MaintenanceInv, Configured
<1>5. Unchanged(dialog.form, plans[p], f)
  BY <1>1, <1>3 DEF MaintenanceInv, DialogInv
<1>6. QED
  BY <1>4, <1>5 DEF Unchanged

\* The dialog is filled in from the row on the page, which is the row of the table: a
\* save changes what the user has changed.
THEOREM EditKeepsTheRestAlways == Spec => EditKeepsTheRest
BY MaintenanceInit, MaintenanceStep, Keeps, PTL DEF Spec, EditKeepsTheRest
-----------------------------------------------------------------------------
(***************************************************************************)
(* The map page: a point is drawn where it was loaded or where it is to be *)
(* saved, its map and the points it saves from are those drawn, and what a *)
(* save has left is what was shown.                                        *)
(***************************************************************************)
Runtimes == [map : Maps \union {NoOne}, marks : UNION {[S -> Row] : S \in SUBSET Marks}]
Placings == UNION {[S -> Spots] : S \in SUBSET Marks}
Uis == [listed : SUBSET Maps, selected : Maps \union {NoOne}, rows : SUBSET Maps,
        runtime : Runtimes, dirty : BOOLEAN, canvas : Runtimes, items : Placings,
        pending : Placings, stale : BOOLEAN]

\* A map that was read: its points lie on it, one for a detector.
SoundRuntime(rt) ==
    /\ \A q \in DOMAIN rt.marks : rt.marks[q].map = rt.map
    /\ \A q, r \in DOMAIN rt.marks : rt.marks[q].det = rt.marks[r].det => q = r

\* Each point is drawn where it is to be saved, or else where it was loaded.
DrawnWhere(u) ==
    /\ DOMAIN u.items = DOMAIN u.canvas.marks /\ DOMAIN u.pending \subseteq DOMAIN u.items
    /\ \A q \in DOMAIN u.items :
          u.items[q] = IF q \in DOMAIN u.pending THEN u.pending[q] ELSE u.canvas.marks[q].place

\* The page: what it draws is what it saves from, and the buttons know what is unsaved.
Sheet(u) ==
    /\ u \in Uis
    /\ u.canvas = NoRuntime \/ u.runtime = u.canvas
    /\ SoundRuntime(u.canvas) /\ DrawnWhere(u)
    /\ u.dirty <=> DOMAIN u.pending # {}

\* Rows that are in the table still, but perhaps elsewhere.
SameButPlace(a, b) == a.map = b.map /\ a.det = b.det /\ a.label = b.label
StillThere(marks, d) ==
    \A q \in DOMAIN marks : q \in DOMAIN d.marks /\ SameButPlace(marks[q], d.marks[q])
UpToDate(u, d) == u.stale \/ StillThere(u.canvas.marks, d)

\* A save: what is left is what was shown; what was moved and is not left is stored.
Saves == [busy : BOOLEAN, saved : BOOLEAN, left : UNION {[S -> Row] : S \in SUBSET Marks},
          shown : UNION {[S -> Row] : S \in SUBSET Marks}, moved : SUBSET Marks, stale : BOOLEAN]
SavingInv ==
    /\ DOMAIN saving.left \subseteq DOMAIN saving.shown
    /\ \A q \in DOMAIN saving.left : saving.left[q] = saving.shown[q]
    /\ \A q, r \in DOMAIN saving.shown : saving.shown[q].det = saving.shown[r].det => q = r
    /\ saving.moved \subseteq DOMAIN saving.shown
    /\ \A q \in saving.moved \ DOMAIN saving.left :
          \E r \in DOMAIN db.marks : db.marks[r] = saving.shown[q]
    /\ saving.stale \/ (~ ui.stale /\ StillThere(saving.shown, db))
    /\ ~ saving.saved

HandInv ==
    /\ drag = NoDrag \/ /\ drag \in [point : Marks, moved : BOOLEAN] /\ drag.point \in DOMAIN ui.items
                        /\ confirm = NoOne /\ ~ saving.busy
    /\ confirm = NoOne \/ (confirm \in ui.listed /\ ~ saving.busy)

MapPageInv ==
    /\ SoundTables(db) /\ Sheet(ui) /\ UpToDate(ui, db) /\ HandInv
    /\ saving \in Saves /\ (saving.busy => SavingInv)

LEMMA NothingIs ==
    /\ NoPoints \in [{} -> Row] /\ NoPoints \in Placings /\ NoRuntime \in Runtimes
    /\ DOMAIN NoPoints = {} /\ NoRuntime.marks = NoPoints /\ NoRuntime.map = NoOne /\ SoundRuntime(NoRuntime)
<1>1. NoPoints \in [{} -> Row] /\ NoPoints \in [{} -> Spots] /\ DOMAIN NoPoints = {}
  BY DEF NoPoints
<1>2. NoPoints \in UNION {[S -> Row] : S \in SUBSET Marks} /\ NoPoints \in Placings
  BY <1>1, Zenon DEF Placings
<1>3. QED
  BY <1>1, <1>2 DEF Runtimes, NoRuntime, SoundRuntime

LEMMA ClearedSheet ==
    ASSUME NEW u, Sheet(u)
    PROVE  /\ Sheet(clear_runtime(u)) /\ clear_runtime(u).canvas = NoRuntime
           /\ clear_runtime(u).selected = u.selected /\ clear_runtime(u).listed = u.listed
           /\ Sheet(_render_runtime(u, NoRuntime)) /\ _render_runtime(u, NoRuntime).canvas = NoRuntime
           /\ _render_runtime(u, NoRuntime).selected = u.selected
           /\ _render_runtime(u, NoRuntime).listed = u.listed
           /\ _render_runtime(u, NoRuntime).stale = u.stale
<1> DEFINE v == clear_runtime(u)
           w == [v EXCEPT !.runtime = NoRuntime]
<1>1. u \in Uis
  BY DEF Sheet
<1>2. v \in Uis /\ v.canvas = NoRuntime /\ v.items = NoPoints /\ v.pending = NoPoints /\ v.dirty = FALSE
      /\ v.selected = u.selected /\ v.listed = u.listed /\ v.stale = u.stale
  BY <1>1, NothingIs DEF clear_runtime, Uis
<1>3. w \in Uis /\ w.canvas = NoRuntime /\ w.items = NoPoints /\ w.pending = NoPoints /\ w.dirty = FALSE
      /\ w.selected = u.selected /\ w.listed = u.listed /\ w.stale = u.stale
  BY <1>2, NothingIs DEF Uis
<1>4. \A x \in {v, w} : DrawnWhere(x)
  BY <1>2, <1>3, NothingIs DEF DrawnWhere
<1>5. w = _render_runtime(u, NoRuntime)
  BY DEF _render_runtime
<1>6. Sheet(v) /\ Sheet(w)
  BY <1>2, <1>3, <1>4, NothingIs DEF Sheet
<1>7. QED
  BY <1>2, <1>3, <1>5, <1>6

LEMMA SetSheet ==
    ASSUME NEW u, Sheet(u), NEW rt \in Runtimes, SoundRuntime(rt)
    PROVE  /\ Sheet(_render_runtime(u, rt)) /\ _render_runtime(u, rt).canvas = rt
           /\ _render_runtime(u, rt).selected = u.selected
           /\ _render_runtime(u, rt).listed = u.listed
           /\ _render_runtime(u, rt).stale = u.stale
<1>1. CASE rt = NoRuntime
  BY <1>1, ClearedSheet
<1>2. CASE rt # NoRuntime
  <2> DEFINE v == set_runtime(u, rt)
             w == [v EXCEPT !.runtime = rt]
  <2>1. u \in Uis
    BY DEF Sheet
  <2>2. Placed(rt) \in Placings /\ DOMAIN Placed(rt) = DOMAIN rt.marks
        /\ \A q \in DOMAIN rt.marks : Placed(rt)[q] = rt.marks[q].place
    <3>1. PICK S \in SUBSET Marks : rt.marks \in [S -> Row]
      BY DEF Runtimes
    <3>2. Placed(rt) \in [S -> Spots]
      BY <3>1 DEF Placed, Row
    <3>3. QED
      BY <3>1, <3>2, Zenon DEF Placings, Placed
  <2>3. v \in Uis /\ v.canvas = rt /\ v.items = Placed(rt) /\ v.pending = NoPoints /\ v.dirty = FALSE
        /\ v.selected = u.selected /\ v.listed = u.listed /\ v.stale = u.stale
    BY <2>1, <2>2, NothingIs DEF set_runtime, Uis
  <2>4. w \in Uis /\ w.canvas = rt /\ w.runtime = rt /\ w.items = Placed(rt) /\ w.pending = NoPoints
        /\ w.dirty = FALSE /\ w.selected = u.selected /\ w.listed = u.listed /\ w.stale = u.stale
    BY <2>3 DEF Uis
  <2>5. w = _render_runtime(u, rt)
    BY <1>2 DEF _render_runtime
  <2>6. DrawnWhere(w)
    BY <2>2, <2>4, NothingIs DEF DrawnWhere
  <2>7. Sheet(w)
    BY <2>4, <2>6, NothingIs DEF Sheet
  <2>8. QED
    BY <2>4, <2>5, <2>7
<1>3. QED
  BY <1>1, <1>2

LEMMA RuntimeRead ==
    ASSUME NEW d, SoundTables(d), NEW m \in d.maps
    PROVE  /\ MapRuntime(m, d) \in Runtimes /\ SoundRuntime(MapRuntime(m, d))
           /\ MapRuntime(m, d).map = m /\ StillThere(MapRuntime(m, d).marks, d)
<1> DEFINE S == {r \in DOMAIN d.marks : d.marks[r].map = m}
           onMap == [q \in S |-> d.marks[q]]
<1>1. S \in SUBSET Marks /\ m \in Maps /\ onMap \in [S -> Row]
  BY DEF SoundTables
<1>2. onMap \in UNION {[T -> Row] : T \in SUBSET Marks}
  BY <1>1, Zenon
<1>3. MapRuntime(m, d) = [map |-> m, marks |-> onMap]
  BY DEF MapRuntime
<1>4. QED
  BY <1>1, <1>2, <1>3 DEF Runtimes, SoundRuntime, StillThere, SameButPlace, SoundTables

\* What a page may be after it read d.
ReadFrom(v, d) == Sheet(v) /\ UpToDate(v, d)

LEMMA RefreshedSheet ==
    ASSUME NEW u, NEW d, SoundTables(d), Sheet(u)
    PROVE  /\ ReadFrom(Refreshed(u, d), d)
           /\ Refreshed(u, d).canvas.map \in {u.selected, NoOne}
           /\ Refreshed(u, d).selected = u.selected /\ Refreshed(u, d).listed = u.listed
           /\ Refreshed(u, d).rows \in {u.rows, u.listed}
           /\ ~ u.stale => ~ Refreshed(u, d).stale
<1> DEFINE r == Refreshed(u, d)
<1>1. CASE u.selected \in d.maps
  <2> DEFINE v == [u EXCEPT !.rows = u.listed, !.stale = FALSE]
             rt == MapRuntime(u.selected, d)
  <2>1. Sheet(v) /\ v.selected = u.selected /\ v.listed = u.listed /\ v.rows = u.listed /\ v.stale = FALSE
    BY DEF Sheet, Uis, DrawnWhere
  <2>2. r = _render_runtime(v, rt)
    BY <1>1 DEF Refreshed
  <2>3. rt \in Runtimes /\ SoundRuntime(rt) /\ rt.map = u.selected /\ StillThere(rt.marks, d)
    BY <1>1, RuntimeRead
  <2> HIDE DEF v, rt
  <2>4. Sheet(r) /\ r.canvas = rt /\ r.selected = u.selected /\ r.listed = u.listed /\ r.stale = FALSE
    BY <2>1, <2>2, <2>3, SetSheet
  <2>5. r.rows = u.listed
    BY <2>1, <2>2 DEF _render_runtime, clear_runtime, set_runtime, Sheet, Uis
  <2>6. QED
    BY <2>3, <2>4, <2>5 DEF ReadFrom, UpToDate
<1>2. CASE u.selected \notin d.maps
  <2>1. r = _render_runtime(u, NoRuntime)
    BY <1>2 DEF Refreshed
  <2>2. Sheet(r) /\ r.canvas = NoRuntime /\ r.selected = u.selected /\ r.listed = u.listed /\ r.stale = u.stale
    BY <2>1, ClearedSheet
  <2>3. r.rows = u.rows
    BY <2>1 DEF _render_runtime, clear_runtime, set_runtime, Sheet, Uis
  <2>4. QED
    BY <2>2, <2>3, NothingIs DEF ReadFrom, UpToDate, StillThere
<1>3. QED
  BY <1>1, <1>2

LEMMA RefreshSheet ==
    ASSUME NEW u, NEW d, SoundTables(d), Sheet(u), UpToDate(u, d), NEW v \in refresh_current(u, d)
    PROVE  /\ ReadFrom(v, d) /\ v.canvas.map \in {u.selected, u.canvas.map, NoOne}
           /\ v.selected = u.selected /\ v.listed = u.listed /\ v.rows \in {u.rows, u.listed}
<1>1. v = u \/ v = Refreshed(u, d)
  BY DEF refresh_current
<1>2. QED
  BY <1>1, RefreshedSheet DEF ReadFrom

LEMMA SelectedSheet ==
    ASSUME NEW u, NEW d, SoundTables(d), Sheet(u), UpToDate(u, d), NEW m \in Maps,
           NEW v \in select_map(u, m, d)
    PROVE  /\ ReadFrom(v, d) /\ v.canvas.map \in {m, u.canvas.map, NoOne}
           /\ v.selected = m /\ v.listed = u.listed /\ v.rows = u.listed
<1> DEFINE w == [u EXCEPT !.selected = m, !.rows = u.listed]
<1>1. /\ Sheet(w) /\ UpToDate(w, d) /\ w.selected = m /\ w.listed = u.listed /\ w.rows = u.listed
      /\ w.canvas = u.canvas
  BY DEF Sheet, Uis, DrawnWhere, UpToDate
<1>2. v \in refresh_current(w, d)
  BY DEF select_map
<1> HIDE DEF w
<1>3. QED
  BY <1>1, <1>2, RefreshSheet

\* A list that is loaded: of which map, and what it leaves of those that are gone.
LEMMA LoadedSheet ==
    ASSUME NEW u, NEW d, SoundTables(d), Sheet(u), UpToDate(u, d), NEW v \in load(u, d)
    PROVE  /\ ReadFrom(v, d) /\ v.selected \in d.maps \union {u.selected, NoOne}
           /\ v.canvas.map \in d.maps \union {NoOne} /\ v.rows \subseteq d.maps
<1> DEFINE cleared == _render_runtime(u, NoRuntime)
           listed == _load_maps(u, d)
<1>1. /\ Sheet(cleared) /\ cleared.canvas = NoRuntime /\ cleared.selected = u.selected
  BY ClearedSheet
<1>2. /\ Sheet(listed) /\ listed.canvas = NoRuntime /\ listed.listed = d.maps /\ listed.rows = d.maps
      /\ listed.selected = u.selected
  <2>1. Sheet(clear_runtime(u)) /\ clear_runtime(u).canvas = NoRuntime /\ clear_runtime(u).selected = u.selected
    BY ClearedSheet
  <2>2. d.maps \in SUBSET Maps
    BY DEF SoundTables
  <2>3. QED
    BY <2>1, <2>2 DEF _load_maps, Sheet, Uis, DrawnWhere
<1>3. CASE v = [cleared EXCEPT !.rows = {}]
  <2>1. Sheet(v) /\ v.canvas = NoRuntime /\ v.selected = u.selected /\ v.rows = {}
    BY <1>1, <1>3 DEF Sheet, Uis, DrawnWhere
  <2>2. QED
    BY <2>1, NothingIs DEF ReadFrom, UpToDate, StillThere
<1>4. CASE d.maps = {} /\ v = [_render_runtime(listed, NoRuntime) EXCEPT !.selected = NoOne]
  <2> DEFINE w == _render_runtime(listed, NoRuntime)
  <2>1. Sheet(w) /\ w.canvas = NoRuntime
    BY <1>2, ClearedSheet
  <2>2. w.rows = d.maps
    BY <1>2 DEF _render_runtime, clear_runtime, set_runtime, Sheet, Uis
  <2>3. Sheet(v) /\ v.canvas = NoRuntime /\ v.selected = NoOne /\ v.rows = d.maps
    BY <1>4, <2>1, <2>2 DEF Sheet, Uis, DrawnWhere
  <2>4. QED
    BY <2>3, NothingIs DEF ReadFrom, UpToDate, StillThere
<1>5. ASSUME NEW m \in Selectable(u, d), v \in select_map(listed, m, d)
      PROVE  /\ ReadFrom(v, d) /\ v.selected \in d.maps
             /\ v.canvas.map \in d.maps \union {NoOne} /\ v.rows \subseteq d.maps
  <2>1. m \in d.maps /\ m \in Maps
    BY <1>5 DEF Selectable, SoundTables
  <2>2. UpToDate(listed, d)
    BY <1>2, NothingIs DEF UpToDate, StillThere
  <2>3. QED
    BY <1>2, <1>5, <2>1, <2>2, SelectedSheet, NothingIs
<1>6. QED
  BY <1>3, <1>4, <1>5 DEF load

LEMMA MapPageStart == MapPageInit => MapPageInv
<1>1. SUFFICES ASSUME MapPageInit PROVE MapPageInv
  OBVIOUS
<1>2. ui \in Uis /\ ui.canvas = NoRuntime /\ ui.items = NoPoints /\ ui.pending = NoPoints /\ ui.dirty = FALSE
  BY <1>1, NothingIs DEF MapPageInit, NewPage, Uis
<1>3. Sheet(ui) /\ UpToDate(ui, db)
  BY <1>2, NothingIs DEF Sheet, DrawnWhere, UpToDate, StillThere
<1>4. SoundTables(db)
  BY <1>1, MapPageAssumption DEF MapPageInit
<1>5. saving \in Saves /\ saving.busy = FALSE
  <2>1. NoPoints \in UNION {[S -> Row] : S \in SUBSET Marks}
    BY NothingIs, Zenon
  <2>2. QED
    BY <1>1, <2>1 DEF MapPageInit, NoSave, Saves
<1>6. QED
  BY <1>1, <1>3, <1>4, <1>5 DEF MapPageInv, HandInv, MapPageInit

\* The page is at hand, and is made anew from what was read.
LEMMA ShownAnew ==
    ASSUME MapPageInv, AtHand, SoundTables(db'), ReadFrom(ui', db'),
           UNCHANGED <<drag, confirm, saving>>
    PROVE  MapPageInv'
BY DEF MapPageInv, HandInv, AtHand, ReadFrom

LEMMA Loads ==
    ASSUME MapPageInv, retry \/ _on_map_selection_changed \/ upload_map
    PROVE  MapPageInv'
<1>1. CASE retry
  <2>1. ReadFrom(ui', db') /\ SoundTables(db') /\ AtHand
    BY <1>1, LoadedSheet DEF retry, MapPageInv
  <2>2. QED
    BY <1>1, <2>1, ShownAnew DEF retry
<1>2. CASE _on_map_selection_changed
  <2>1. PICK m \in ui.rows \ {ui.selected} : ui' \in select_map(ui, m, db)
    BY <1>2 DEF _on_map_selection_changed
  <2>2. m \in Maps
    BY <2>1 DEF MapPageInv, Sheet, Uis
  <2>3. ReadFrom(ui', db)
    BY <2>1, <2>2, SelectedSheet DEF MapPageInv
  <2>4. QED
    BY <1>2, <2>3, ShownAnew DEF _on_map_selection_changed, MapPageInv
<1>3. CASE upload_map
  <2>1. PICK m \in Maps \ db.given :
            /\ db' = [db EXCEPT !.maps = @ \union {m}, !.given = @ \union {m}]
            /\ ui' \in load([ui EXCEPT !.selected = m], db')
    BY <1>3 DEF upload_map
  <2> DEFINE u == [ui EXCEPT !.selected = m]
  <2>2. SoundTables(db') /\ UpToDate(ui, db')
    BY <2>1 DEF MapPageInv, SoundTables, UpToDate, StillThere
  <2>3. Sheet(u) /\ UpToDate(u, db')
    BY <2>1, <2>2 DEF MapPageInv, Sheet, Uis, DrawnWhere, UpToDate
  <2>4. ReadFrom(ui', db')
    BY <2>1, <2>2, <2>3, LoadedSheet
  <2>5. QED
    BY <1>3, <2>2, <2>4, ShownAnew DEF upload_map
<1>4. QED
  BY <1>1, <1>2, <1>3

\* The map that was confirmed is deleted, and the page shows it no longer.
LEMMA Deletes ==
    ASSUME MapPageInv, Deleted
    PROVE  /\ MapPageInv'
           /\ db.maps \ db'.maps = {confirm} /\ confirm \in ui.listed
           /\ \A q \in DOMAIN db'.marks : db'.marks[q].map # confirm
           /\ confirm \notin {ui'.selected, ui'.canvas.map} \union ui'.rows
<1> DEFINE u == [ui EXCEPT !.selected = IF @ = confirm THEN NoOne ELSE @]
<1>1. /\ confirm # NoOne /\ confirm \in db.maps /\ \A q \in DOMAIN db.marks : db.marks[q].map # confirm
      /\ db' = [db EXCEPT !.maps = @ \ {confirm}] /\ ui' \in load(u, db')
      /\ confirm' = NoOne /\ UNCHANGED <<drag, saving>>
  BY DEF Deleted, delete_map
<1>2. SoundTables(db') /\ UpToDate(ui, db') /\ db'.maps = db.maps \ {confirm} /\ db'.marks = db.marks
  BY <1>1 DEF MapPageInv, SoundTables, UpToDate, StillThere
<1>3. Sheet(u) /\ UpToDate(u, db') /\ u.selected # confirm
  BY <1>1, <1>2 DEF MapPageInv, Sheet, Uis, DrawnWhere, UpToDate
<1>4. /\ ReadFrom(ui', db') /\ ui'.selected \in db'.maps \union {u.selected, NoOne}
      /\ ui'.canvas.map \in db'.maps \union {NoOne} /\ ui'.rows \subseteq db'.maps
  <2> HIDE DEF u
  <2>1. QED
    BY <1>1, <1>2, <1>3, LoadedSheet
<1>5. drag = NoDrag /\ ~ saving.busy /\ confirm \in ui.listed
  BY <1>1 DEF MapPageInv, HandInv
<1>6. MapPageInv'
  BY <1>1, <1>2, <1>4, <1>5 DEF MapPageInv, HandInv, ReadFrom
<1>7. QED
  BY <1>1, <1>2, <1>3, <1>4, <1>5, <1>6

LEMMA DraggedSheet ==
    ASSUME NEW u, Sheet(u), NEW q \in DOMAIN u.items, NEW spot \in Spots
    PROVE  /\ Sheet(_handle_drag_move(u, q, spot))
           /\ DOMAIN _handle_drag_move(u, q, spot).items = DOMAIN u.items
           /\ _handle_drag_move(u, q, spot).canvas = u.canvas
           /\ _handle_drag_move(u, q, spot).stale = u.stale
           /\ _handle_drag_move(u, q, spot).listed = u.listed
<1> DEFINE v == _handle_drag_move(u, q, spot)
           pending == With(u.pending, q, spot)
           items == [u.items EXCEPT ![q] = spot]
<1>1. u \in Uis
  BY DEF Sheet
<1>2. PICK S \in SUBSET Marks : u.items \in [S -> Spots]
  BY <1>1 DEF Uis, Placings
<1>3. PICK T \in SUBSET Marks : u.pending \in [T -> Spots]
  BY <1>1 DEF Uis, Placings
<1>4. items \in [S -> Spots] /\ pending \in [T \union {q} -> Spots] /\ T \union {q} \in SUBSET Marks
  BY <1>2, <1>3 DEF With
<1>5. items \in Placings /\ pending \in Placings
  BY <1>4, Zenon DEF Placings
<1>6. v = [u EXCEPT !.pending = pending, !.items = items, !.dirty = TRUE]
  BY <1>1 DEF _handle_drag_move, Uis
<1>7. /\ v \in Uis /\ v.pending = pending /\ v.items = items /\ v.dirty = TRUE /\ v.canvas = u.canvas
      /\ v.runtime = u.runtime /\ v.stale = u.stale /\ v.listed = u.listed
  BY <1>1, <1>5, <1>6 DEF Uis
<1>8. /\ DOMAIN items = DOMAIN u.items /\ DOMAIN pending = DOMAIN u.pending \union {q}
      /\ \A r \in DOMAIN items : items[r] = IF r = q THEN spot ELSE u.items[r]
      /\ \A r \in DOMAIN pending : pending[r] = IF r = q THEN spot ELSE u.pending[r]
  BY <1>2, <1>3 DEF With
<1> HIDE DEF v, pending, items
<1>9. DrawnWhere(v)
  BY <1>7, <1>8 DEF DrawnWhere, Sheet
<1>10. Sheet(v)
  BY <1>7, <1>8, <1>9 DEF Sheet
<1>11. QED
  BY <1>7, <1>8, <1>10 DEF v

LEMMA Drags ==
    ASSUME MapPageInv, mousePressEvent \/ mouseMoveEvent \/ mouseReleaseEvent
    PROVE  MapPageInv'
<1>1. CASE mousePressEvent
  <2>1. PICK q \in DOMAIN ui.items : drag' = [point |-> q, moved |-> FALSE]
    BY <1>1 DEF mousePressEvent
  <2>2. q \in Marks
    BY <2>1 DEF MapPageInv, Sheet, Uis, Placings
  <2>3. QED
    BY <1>1, <2>1, <2>2 DEF mousePressEvent, AtHand, MapPageInv, HandInv, SavingInv
<1>2. ASSUME NEW spot \in Spots, drag # NoDrag, ui' = _handle_drag_move(ui, drag.point, spot),
             drag' = NoDrag \/ drag' = [drag EXCEPT !.moved = TRUE],
             UNCHANGED <<db, confirm, saving>>
      PROVE  MapPageInv'
  <2>1. drag.point \in DOMAIN ui.items /\ drag \in [point : Marks, moved : BOOLEAN]
        /\ confirm = NoOne /\ ~ saving.busy
    BY <1>2 DEF MapPageInv, HandInv
  <2>2. /\ Sheet(ui') /\ DOMAIN ui'.items = DOMAIN ui.items /\ ui'.canvas = ui.canvas
        /\ ui'.stale = ui.stale
    BY <1>2, <2>1, DraggedSheet DEF MapPageInv
  <2>3. UpToDate(ui', db')
    BY <1>2, <2>2 DEF MapPageInv, UpToDate
  <2>4. HandInv'
    BY <1>2, <2>1, <2>2 DEF HandInv
  <2>5. QED
    BY <1>2, <2>1, <2>2, <2>3, <2>4 DEF MapPageInv
<1>3. CASE mouseMoveEvent
  BY <1>2, <1>3 DEF mouseMoveEvent
<1>4. CASE mouseReleaseEvent
  <2>1. CASE drag.moved
    <3>1. drag.point \in DOMAIN ui.items /\ ui.items[drag.point] \in Spots
      BY <1>4 DEF mouseReleaseEvent, MapPageInv, HandInv, Sheet, Uis, Placings
    <3>2. QED
      BY <1>2, <1>4, <2>1, <3>1 DEF mouseReleaseEvent
  <2>2. CASE ~ drag.moved
    BY <1>4, <2>2 DEF mouseReleaseEvent, MapPageInv, HandInv, SavingInv
  <2>3. QED
    BY <2>1, <2>2
<1>5. QED
  BY <1>1, <1>3, <1>4

LEMMA Refreshes == ASSUME MapPageInv, Timeout PROVE MapPageInv'
<1>1. /\ ~ saving.busy /\ ui' \in refresh_current(ui, db)
      /\ drag' = IF drag.point \in DOMAIN ui'.items THEN drag ELSE NoDrag
      /\ UNCHANGED <<db, confirm, saving>>
  BY DEF Timeout
<1>2. Sheet(ui') /\ UpToDate(ui', db) /\ ui'.listed = ui.listed
  BY <1>1, RefreshSheet DEF MapPageInv, ReadFrom
<1>3. HandInv'
  BY <1>1, <1>2 DEF MapPageInv, HandInv
<1>4. QED
  BY <1>1, <1>2, <1>3 DEF MapPageInv

LEMMA CancelledSheet ==
    ASSUME NEW u, Sheet(u)
    PROVE  Sheet(cancel_pending(u)) /\ cancel_pending(u).canvas = u.canvas
           /\ cancel_pending(u).stale = u.stale
<1> DEFINE v == cancel_pending(u)
<1>1. u \in Uis /\ u.canvas \in Runtimes
  BY DEF Sheet, Uis
<1>2. PICK S \in SUBSET Marks : u.canvas.marks \in [S -> Row]
  BY <1>1 DEF Runtimes
<1>3. Placed(u.canvas) \in [S -> Spots]
  BY <1>2 DEF Placed, Row
<1>4. Placed(u.canvas) \in Placings
  BY <1>3, Zenon DEF Placings
<1>5. /\ v \in Uis /\ v.canvas = u.canvas /\ v.runtime = u.runtime /\ v.stale = u.stale
      /\ v.pending = NoPoints /\ v.items = Placed(u.canvas) /\ v.dirty = FALSE
  BY <1>1, <1>4, NothingIs DEF cancel_pending, Uis
<1>6. DrawnWhere(v)
  BY <1>5, NothingIs DEF DrawnWhere, Placed
<1>7. QED
  BY <1>5, <1>6, NothingIs DEF Sheet

\* Steps that leave the tables alone, or the points.
LEMMA Quiet ==
    ASSUME MapPageInv, \/ _on_state_event \/ cancel_pending_positions \/ SaveFails
                       \/ delete_selected_map \/ NotDeleted \/ DetectorDeleted \/ TablesRestored
    PROVE  MapPageInv'
<1>1. CASE _on_state_event
  BY <1>1 DEF _on_state_event, MapPageInv, HandInv, SavingInv
<1>2. CASE cancel_pending_positions
  <2>1. Sheet(ui') /\ UpToDate(ui', db')
    BY <1>2, CancelledSheet DEF cancel_pending_positions, MapPageInv, UpToDate
  <2>2. QED
    BY <1>2, <2>1 DEF cancel_pending_positions, AtHand, MapPageInv, HandInv
<1>3. NoSave \in Saves /\ NoSave.busy = FALSE
  <2>1. NoPoints \in UNION {[S -> Row] : S \in SUBSET Marks}
    BY NothingIs, Zenon
  <2>2. QED
    BY <2>1 DEF NoSave, Saves
<1>4. CASE SaveFails
  BY <1>3, <1>4 DEF SaveFails, MapPageInv, HandInv
<1>5. CASE delete_selected_map
  BY <1>5 DEF delete_selected_map, AtHand, MapPageInv, HandInv, SavingInv
<1>6. CASE NotDeleted
  BY <1>6 DEF NotDeleted, MapPageInv, HandInv, SavingInv
<1>7. CASE DetectorDeleted
  <2>1. SoundTables(db') /\ db'.marks = db.marks
    BY <1>7 DEF DetectorDeleted, MapPageInv, SoundTables
  <2>2. QED
    BY <1>7, <2>1 DEF DetectorDeleted, AtHand, MapPageInv, HandInv, UpToDate, StillThere
<1>8. CASE TablesRestored
  <2>1. SoundTables(db') /\ ui' = [ui EXCEPT !.stale = TRUE]
    BY <1>8, MapPageAssumption DEF TablesRestored
  <2>2. Sheet(ui') /\ UpToDate(ui', db')
    BY <2>1 DEF MapPageInv, Sheet, Uis, DrawnWhere, UpToDate
  <2>3. QED
    BY <1>8, <2>1, <2>2 DEF TablesRestored, AtHand, MapPageInv, HandInv
<1>9. QED
  BY <1>1, <1>2, <1>4, <1>5, <1>6, <1>7, <1>8

LEMMA AsksToSave == ASSUME MapPageInv, save_pending_positions PROVE MapPageInv'
<1> DEFINE left == [q \in DOMAIN ui.pending \intersect DOMAIN ui.runtime.marks |->
                        [ui.runtime.marks[q] EXCEPT !.place = ui.pending[q]]]
           shown == [q \in DOMAIN ui.items |-> [ui.canvas.marks[q] EXCEPT !.place = ui.items[q]]]
           moved == {q \in DOMAIN ui.items : ui.items[q] # ui.canvas.marks[q].place}
<1>1. /\ saving' = [busy |-> TRUE, saved |-> FALSE, stale |-> ui.stale, left |-> left,
                    shown |-> shown, moved |-> moved]
      /\ confirm = NoOne /\ drag = NoDrag /\ ui.dirty /\ UNCHANGED <<db, ui, drag, confirm>>
  BY DEF save_pending_positions, AtHand
<1>2. Sheet(ui) /\ ui \in Uis /\ DrawnWhere(ui) /\ SoundRuntime(ui.canvas)
  BY DEF MapPageInv, Sheet
<1>3. ui.runtime = ui.canvas
  BY <1>1, <1>2, NothingIs DEF Sheet, DrawnWhere
<1>4. PICK S \in SUBSET Marks : ui.canvas.marks \in [S -> Row]
  BY <1>2 DEF Uis, Runtimes
<1>5. /\ DOMAIN ui.items = S /\ DOMAIN ui.pending \subseteq S
      /\ \A q \in S : ui.items[q] \in Spots
      /\ \A q \in DOMAIN ui.pending : ui.pending[q] = ui.items[q]
  BY <1>2, <1>4 DEF DrawnWhere, Uis, Placings
<1>6. /\ DOMAIN shown = S /\ DOMAIN left = DOMAIN ui.pending
      /\ \A q \in S : /\ shown[q] \in Row /\ SameButPlace(shown[q], ui.canvas.marks[q])
                      /\ shown[q].place = ui.items[q]
      /\ \A q \in DOMAIN left : left[q] = shown[q]
  BY <1>3, <1>4, <1>5 DEF Row, SameButPlace
<1> HIDE DEF left, shown
<1>7. left \in [DOMAIN left -> Row] /\ shown \in [S -> Row] /\ DOMAIN left \in SUBSET Marks
      /\ moved \in SUBSET Marks
  <2>1. left = [q \in DOMAIN left |-> left[q]] /\ shown = [q \in DOMAIN shown |-> shown[q]]
    BY DEF left, shown
  <2>2. QED
    BY <1>4, <1>5, <1>6, <2>1
<1>8. saving' \in Saves
  <2>1. left \in UNION {[T -> Row] : T \in SUBSET Marks} /\ shown \in UNION {[T -> Row] : T \in SUBSET Marks}
    BY <1>7, Zenon
  <2>2. ui.stale \in BOOLEAN
    BY <1>2 DEF Uis
  <2>3. QED
    BY <1>1, <1>7, <2>1, <2>2 DEF Saves
<1>9. \A q, r \in S : shown[q].det = shown[r].det => q = r
  BY <1>2, <1>4, <1>6 DEF SoundRuntime, SameButPlace
<1>10. moved \subseteq DOMAIN left
  BY <1>2, <1>5, <1>6 DEF DrawnWhere
<1>11. ui.stale \/ StillThere(shown, db)
  BY <1>4, <1>6 DEF MapPageInv, UpToDate, StillThere, SameButPlace
<1>12. SavingInv'
  <2>1. /\ saving'.left = left /\ saving'.shown = shown /\ saving'.moved = moved /\ saving'.stale = ui.stale
        /\ db' = db /\ ui' = ui /\ ~ saving'.saved
    BY <1>1
  <2>2. DOMAIN left \subseteq DOMAIN shown /\ moved \subseteq DOMAIN shown
    BY <1>5, <1>6, <1>10
  <2> HIDE DEF moved
  <2>3. QED
    BY <1>6, <1>9, <1>10, <1>11, <2>1, <2>2 DEF SavingInv, StillThere
<1>13. HandInv'
  <2>1. drag' = NoDrag /\ confirm' = NoOne
    BY <1>1
  <2>2. QED
    BY <2>1 DEF HandInv
<1>14. SoundTables(db') /\ Sheet(ui') /\ UpToDate(ui', db')
  BY <1>1 DEF MapPageInv
<1>15. QED
  BY <1>8, <1>12, <1>13, <1>14 DEF MapPageInv

\* A point that is saved is stored as it was shown, and what was stored stays; of rows
\* that had not changed, it was the row of the point that was changed, in place only.
OneSaved(q, r) ==
    /\ db'.marks = With(db.marks, r, saving.shown[q]) /\ SoundTables(db')
    /\ \A p \in saving.moved \ (DOMAIN saving.left \ {q}) :
          \E s \in DOMAIN db'.marks : db'.marks[s] = saving.shown[p]
    /\ ~ saving.stale =>
          /\ r = q /\ q \in DOMAIN db.marks
          /\ db'.marks[r] = [db.marks[r] EXCEPT !.place = saving.shown[q].place]
          /\ StillThere(saving.shown, db') /\ StillThere(ui.canvas.marks, db')

LEMMA StoresOne ==
    ASSUME MapPageInv, saving.busy, NEW q \in DOMAIN saving.left, NEW r \in Marks,
           save_point(r, saving.left[q])
    PROVE  q \in DOMAIN saving.shown /\ OneSaved(q, r)
<1> DEFINE row == saving.shown[q]
<1>1. SavingInv /\ SoundTables(db) /\ saving \in Saves
  BY DEF MapPageInv
<1>2. q \in DOMAIN saving.shown /\ saving.left[q] = row
  BY <1>1 DEF SavingInv
<1>3. row \in Row /\ row.map \in db.maps
  BY <1>1, <1>2 DEF Saves, save_point
<1>4. /\ db' = [db EXCEPT !.marks = With(@, r, row)]
      /\ Upserts(r, row)
  BY <1>2 DEF save_point
<1>5. \A s \in DOMAIN db.marks : db.marks[s].det = row.det => s = r
  <2> HIDE DEF row
  <2>1. QED
    BY <1>1, <1>4 DEF Upserts, SoundTables
<1>6. /\ db'.marks = With(db.marks, r, row) /\ db'.maps = db.maps /\ db'.given = db.given
      /\ db'.sensors = db.sensors
      /\ DOMAIN db'.marks = DOMAIN db.marks \union {r} /\ db'.marks[r] = row
      /\ \A s \in DOMAIN db.marks \ {r} : db'.marks[s] = db.marks[s]
  BY <1>1, <1>4 DEF SoundTables, With
<1>7. SoundTables(db')
  BY <1>1, <1>3, <1>5, <1>6 DEF SoundTables
<1>8. ASSUME NEW p \in saving.moved \ (DOMAIN saving.left \ {q})
      PROVE  \E s \in DOMAIN db'.marks : db'.marks[s] = saving.shown[p]
  <2>1. CASE p = q
    BY <1>6, <2>1
  <2>2. CASE p # q
    <3>1. p \in saving.moved \ DOMAIN saving.left /\ p \in DOMAIN saving.shown
      BY <1>1, <1>8, <2>2 DEF SavingInv
    <3>2. PICK s \in DOMAIN db.marks : db.marks[s] = saving.shown[p]
      BY <1>1, <3>1 DEF SavingInv
    <3>3. saving.shown[p].det # row.det
      BY <1>1, <1>2, <2>2, <3>1 DEF SavingInv
    <3>4. s # r
      BY <1>4, <3>2, <3>3 DEF Upserts
    <3>5. QED
      BY <1>6, <3>2, <3>4
  <2>3. QED
    BY <2>1, <2>2
<1>9. ASSUME ~ saving.stale
      PROVE  /\ r = q /\ q \in DOMAIN db.marks
             /\ db'.marks[r] = [db.marks[r] EXCEPT !.place = row.place]
             /\ StillThere(saving.shown, db') /\ StillThere(ui.canvas.marks, db')
  <2>1. StillThere(saving.shown, db) /\ StillThere(ui.canvas.marks, db)
    BY <1>1, <1>9 DEF SavingInv, MapPageInv, UpToDate
  <2>2. q \in DOMAIN db.marks /\ SameButPlace(row, db.marks[q])
    BY <1>2, <2>1 DEF StillThere
  <2>3. r = q
    BY <1>5, <2>2 DEF SameButPlace
  <2>4. db.marks[q] \in Row
    BY <1>1, <2>2 DEF SoundTables
  <2>5. row = [db.marks[q] EXCEPT !.place = row.place]
    BY <1>3, <2>2, <2>4 DEF Row, SameButPlace
  <2>6. \A x : SameButPlace(x, db.marks[q]) => SameButPlace(x, row)
    BY <2>2 DEF SameButPlace
  <2>7. \A marks : StillThere(marks, db) => StillThere(marks, db')
    BY <1>6, <2>3, <2>6 DEF StillThere
  <2>8. QED
    BY <1>6, <2>1, <2>2, <2>3, <2>5, <2>7
<1>10. QED
  BY <1>2, <1>6, <1>7, <1>8, <1>9 DEF OneSaved

LEMMA SavesOne ==
    ASSUME MapPageInv, saving.busy, NEW q \in DOMAIN saving.left, NEW r \in Marks,
           OneSaved(q, r), UNCHANGED <<drag, confirm>>,
           \/ /\ ui' = Refreshed(ui, db')
              /\ saving' = IF DOMAIN saving.left = {q} THEN [NoSave EXCEPT !.saved = TRUE]
                           ELSE [saving EXCEPT !.left = [s \in DOMAIN @ \ {q} |-> @[s]]]
           \/ ui' = [ui EXCEPT !.stale = saving.stale] /\ saving' = NoSave
    PROVE  MapPageInv'
<1>1. SavingInv /\ saving \in Saves /\ Sheet(ui) /\ SoundTables(db')
  BY DEF MapPageInv, OneSaved
<1>2. HandInv'
  BY DEF MapPageInv, HandInv
<1>3. /\ NoSave \in Saves /\ NoSave.busy = FALSE
      /\ [NoSave EXCEPT !.saved = TRUE] \in Saves /\ [NoSave EXCEPT !.saved = TRUE].busy = FALSE
  <2>1. NoPoints \in UNION {[S -> Row] : S \in SUBSET Marks}
    BY NothingIs, Zenon
  <2>2. QED
    BY <2>1 DEF NoSave, Saves
<1>4. CASE ui' = [ui EXCEPT !.stale = saving.stale] /\ saving' = NoSave
  <2>1. Sheet(ui')
    BY <1>1, <1>4 DEF Sheet, Uis, DrawnWhere, Saves
  <2>2. ui'.canvas = ui.canvas /\ ui'.stale = saving.stale
    BY <1>1, <1>4 DEF Sheet, Uis
  <2>3. UpToDate(ui', db')
    BY <2>2 DEF OneSaved, UpToDate
  <2>4. QED
    BY <1>1, <1>2, <1>3, <1>4, <2>1, <2>3 DEF MapPageInv
<1>5. CASE ui' = Refreshed(ui, db')
  <2>1. Sheet(ui') /\ UpToDate(ui', db') /\ (~ ui.stale => ~ ui'.stale)
    BY <1>1, <1>5, RefreshedSheet DEF ReadFrom
  <2>2. CASE saving' = [NoSave EXCEPT !.saved = TRUE]
    BY <1>1, <1>2, <1>3, <2>1, <2>2 DEF MapPageInv
  <2>3. CASE saving' = [saving EXCEPT !.left = [s \in DOMAIN @ \ {q} |-> @[s]]]
    <3> DEFINE rest == [s \in DOMAIN saving.left \ {q} |-> saving.left[s]]
    <3>1. PICK S \in SUBSET Marks : saving.left \in [S -> Row]
      BY <1>1 DEF Saves
    <3>2. /\ rest \in [S \ {q} -> Row] /\ DOMAIN rest = DOMAIN saving.left \ {q}
          /\ \A s \in DOMAIN rest : rest[s] = saving.left[s]
      BY <3>1
    <3>3. rest \in UNION {[T -> Row] : T \in SUBSET Marks}
      <4>1. S \ {q} \in SUBSET Marks
        OBVIOUS
      <4> HIDE DEF rest
      <4>2. QED
        BY <3>2, <4>1, Zenon
    <3>4. saving' = [saving EXCEPT !.left = rest]
      BY <2>3
    <3> HIDE DEF rest
    <3>5. /\ saving' \in Saves /\ saving'.left = rest /\ saving'.shown = saving.shown
          /\ saving'.moved = saving.moved /\ saving'.stale = saving.stale /\ saving'.busy
          /\ ~ saving'.saved
      BY <1>1, <3>3, <3>4 DEF Saves, SavingInv
    <3>6. \A p \in saving.moved \ DOMAIN rest : \E s \in DOMAIN db'.marks : db'.marks[s] = saving.shown[p]
      BY <3>2 DEF OneSaved
    <3>7. saving.stale \/ (~ ui'.stale /\ StillThere(saving.shown, db'))
      BY <1>1, <2>1 DEF OneSaved, SavingInv
    <3>8. SavingInv'
      <4>1. DOMAIN rest \subseteq DOMAIN saving.shown /\ \A s \in DOMAIN rest : rest[s] = saving.shown[s]
        BY <1>1, <3>2 DEF SavingInv
      <4>2. /\ \A p, s \in DOMAIN saving.shown : saving.shown[p].det = saving.shown[s].det => p = s
            /\ saving.moved \subseteq DOMAIN saving.shown
        BY <1>1 DEF SavingInv
      <4>3. QED
        BY <3>5, <3>6, <3>7, <4>1, <4>2 DEF SavingInv
    <3>9. QED
      BY <1>1, <1>2, <2>1, <3>5, <3>8 DEF MapPageInv
  <2>4. QED
    BY <1>4, <2>2, <2>3
<1>6. QED
  BY <1>4, <1>5

LEMMA MapPageStep == MapPageInv /\ [MapPageNext]_mapPageVars => MapPageInv'
<1>1. SUFFICES ASSUME MapPageInv, [MapPageNext]_mapPageVars PROVE MapPageInv'
  OBVIOUS
<1>2. CASE save_point_position
  <2>1. PICK q \in DOMAIN saving.left, r \in Marks :
            /\ save_point(r, saving.left[q])
            /\ \/ /\ ui' = Refreshed(ui, db')
                  /\ saving' = IF DOMAIN saving.left = {q} THEN [NoSave EXCEPT !.saved = TRUE]
                               ELSE [saving EXCEPT !.left = [s \in DOMAIN @ \ {q} |-> @[s]]]
               \/ ui' = [ui EXCEPT !.stale = saving.stale] /\ saving' = NoSave
    BY <1>2 DEF save_point_position
  <2>2. OneSaved(q, r) /\ saving.busy /\ UNCHANGED <<drag, confirm>>
    BY <1>1, <1>2, <2>1, StoresOne DEF save_point_position
  <2>3. QED
    BY <1>1, <2>1, <2>2, SavesOne
<1>3. CASE UNCHANGED mapPageVars
  BY <1>1, <1>3 DEF mapPageVars, MapPageInv, HandInv, SavingInv
<1>4. CASE MapPageNext
  BY <1>1, <1>2, <1>4, Loads, Deletes, Drags, Refreshes, Quiet, AsksToSave DEF MapPageNext
<1>5. QED
  BY <1>1, <1>3, <1>4

LEMMA MapPageAlways == MapPageSpec => []MapPageInv
BY MapPageStart, MapPageStep, PTL DEF MapPageSpec

LEMMA MapTold == MapPageInv => UnsavedIsTold
BY DEF MapPageInv, UnsavedIsTold, Sheet, DrawnWhere

\* The steps of SavedAsDropped and MapDeletedAsConfirmed.
PointsSaved ==
    /\ db'.marks # db.marks =>
          \/ TablesRestored
          \/ \E q \in DOMAIN saving.shown, r \in DOMAIN db'.marks :
                /\ saving.busy /\ db'.marks = With(db.marks, r, saving.shown[q])
                /\ ~ saving.stale =>
                      /\ r = q /\ q \in DOMAIN db.marks
                      /\ db'.marks[r] = [db.marks[r] EXCEPT !.place = saving.shown[q].place]
    /\ saving.busy /\ saving'.saved =>
          \A q \in saving.moved : \E r \in DOMAIN db'.marks : db'.marks[r] = saving.shown[q]
MapsDeleted ==
    \A m \in db.maps \ db'.maps :
       \/ TablesRestored
       \/ /\ confirm = m /\ m \in ui.listed /\ \A q \in DOMAIN db'.marks : db'.marks[q].map # m
          /\ m \notin {ui'.selected, ui'.canvas.map} /\ m \notin ui'.rows

LEMMA PointsStep == MapPageInv /\ MapPageNext => PointsSaved
<1>1. SUFFICES ASSUME MapPageInv, MapPageNext PROVE PointsSaved
  OBVIOUS
<1>2. saving.busy => SavingInv /\ ~ saving.saved
  BY <1>1 DEF MapPageInv, SavingInv
<1>3. CASE save_point_position
  <2>1. PICK q \in DOMAIN saving.left, r \in Marks :
            /\ save_point(r, saving.left[q])
            /\ \/ saving' = IF DOMAIN saving.left = {q} THEN [NoSave EXCEPT !.saved = TRUE]
                            ELSE [saving EXCEPT !.left = [s \in DOMAIN @ \ {q} |-> @[s]]]
               \/ saving' = NoSave
    BY <1>3 DEF save_point_position
  <2>2. OneSaved(q, r) /\ saving.busy /\ q \in DOMAIN saving.shown
    BY <1>1, <1>3, <2>1, StoresOne DEF save_point_position
  <2>3. r \in DOMAIN db'.marks
    BY <2>2 DEF OneSaved, With
  <2>4. saving'.saved => DOMAIN saving.left = {q}
    <3> DEFINE rest == [s \in DOMAIN saving.left \ {q} |-> saving.left[s]]
    <3>1. \/ DOMAIN saving.left = {q} \/ saving' = NoSave \/ saving' = [saving EXCEPT !.left = rest]
      BY <2>1
    <3> HIDE DEF rest
    <3>2. ~ [saving EXCEPT !.left = rest].saved
      BY <1>1, <1>2, <2>2 DEF MapPageInv, Saves
    <3>3. ~ NoSave.saved
      BY DEF NoSave
    <3>4. QED
      BY <3>1, <3>2, <3>3, Zenon
  <2>5. saving'.saved => \A p \in saving.moved : \E s \in DOMAIN db'.marks : db'.marks[s] = saving.shown[p]
    BY <2>2, <2>4 DEF OneSaved
  <2>6. QED
    BY <2>2, <2>3, <2>5 DEF PointsSaved, OneSaved
<1>4. CASE TablesRestored
  BY <1>2, <1>4 DEF TablesRestored, PointsSaved
<1>5. CASE db'.marks = db.marks /\ saving' = saving
  BY <1>2, <1>5 DEF PointsSaved
<1>6. CASE db'.marks = db.marks /\ ~ saving.busy
  BY <1>6 DEF PointsSaved
<1>7. CASE SaveFails
  BY <1>7 DEF SaveFails, NoSave, PointsSaved
<1>8. CASE Deleted \/ upload_map \/ DetectorDeleted
  <2>1. CASE Deleted
    BY <1>5, <2>1 DEF Deleted, delete_map
  <2>2. CASE upload_map
    <3>1. PICK m \in Maps : db' = [db EXCEPT !.maps = @ \union {m}, !.given = @ \union {m}]
      BY <2>2 DEF upload_map
    <3>2. QED
      BY <1>5, <2>2, <3>1 DEF upload_map
  <2>3. CASE DetectorDeleted
    <3>1. PICK d \in db.sensors : db' = [db EXCEPT !.sensors = @ \ {d}]
      BY <2>3 DEF DetectorDeleted
    <3>2. QED
      BY <1>5, <2>3, <3>1 DEF DetectorDeleted
  <2>4. QED
    BY <1>8, <2>1, <2>2, <2>3
<1>9. CASE save_pending_positions
  BY <1>6, <1>9 DEF save_pending_positions, AtHand
<1>10. CASE \/ retry \/ _on_map_selection_changed \/ _on_state_event \/ Timeout \/ mousePressEvent
            \/ mouseMoveEvent \/ mouseReleaseEvent \/ cancel_pending_positions
            \/ delete_selected_map \/ NotDeleted
  BY <1>5, <1>10 DEF retry, _on_map_selection_changed, _on_state_event, Timeout, mousePressEvent,
     mouseMoveEvent, mouseReleaseEvent, cancel_pending_positions, delete_selected_map, NotDeleted
<1>11. QED
  BY <1>1, <1>3, <1>4, <1>7, <1>8, <1>9, <1>10 DEF MapPageNext

LEMMA MapsStep == MapPageInv /\ MapPageNext => MapsDeleted
<1>1. SUFFICES ASSUME MapPageInv, MapPageNext PROVE MapsDeleted
  OBVIOUS
<1>2. CASE Deleted
  BY <1>1, <1>2, Deletes DEF MapsDeleted
<1>3. CASE TablesRestored
  BY <1>3 DEF MapsDeleted
<1>4. CASE db.maps \subseteq db'.maps
  BY <1>4 DEF MapsDeleted
<1>5. CASE save_point_position
  BY <1>4, <1>5 DEF save_point_position, save_point
<1>6. CASE upload_map \/ DetectorDeleted
  <2>1. CASE upload_map
    <3>1. PICK m \in Maps : db' = [db EXCEPT !.maps = @ \union {m}, !.given = @ \union {m}]
      BY <2>1 DEF upload_map
    <3>2. QED
      BY <1>4, <3>1
  <2>2. CASE DetectorDeleted
    <3>1. PICK d \in db.sensors : db' = [db EXCEPT !.sensors = @ \ {d}]
      BY <2>2 DEF DetectorDeleted
    <3>2. QED
      BY <1>4, <3>1
  <2>3. QED
    BY <1>6, <2>1, <2>2
<1>7. CASE db' = db
  BY <1>4, <1>7
<1>8. CASE \/ retry \/ _on_map_selection_changed \/ _on_state_event \/ Timeout \/ mousePressEvent
           \/ mouseMoveEvent \/ mouseReleaseEvent \/ cancel_pending_positions
           \/ save_pending_positions \/ SaveFails \/ delete_selected_map \/ NotDeleted
  BY <1>7, <1>8 DEF retry, _on_map_selection_changed, _on_state_event, Timeout, mousePressEvent,
     mouseMoveEvent, mouseReleaseEvent, cancel_pending_positions, save_pending_positions, SaveFails,
     delete_selected_map, NotDeleted
<1>9. QED
  BY <1>1, <1>2, <1>3, <1>5, <1>6, <1>8 DEF MapPageNext

\* For every set of maps, points, places and databases: what is unsaved is told, a save
\* writes the points as they were shown, and a map is deleted only as confirmed.
THEOREM MapPageKept == MapPageSpec => []UnsavedIsTold /\ SavedAsDropped /\ MapDeletedAsConfirmed
<1>1. MapPageInv /\ [MapPageNext]_mapPageVars => [PointsSaved]_mapPageVars /\ [MapsDeleted]_mapPageVars
  BY PointsStep, MapsStep
<1>2. QED
  BY <1>1, MapPageStart, MapPageStep, MapTold, PTL
     DEF MapPageSpec, SavedAsDropped, MapDeletedAsConfirmed, PointsSaved, MapsDeleted
-----------------------------------------------------------------------------
(***************************************************************************)
(* The chart page: the curves are finite and have the points of their own  *)
(* detector; what the table lets export is the answer to the last query.   *)
(***************************************************************************)
Unbounded(n) == \E f \in [1..n -> Nat] : \A b \in Nat : \E i \in 1..n : f[i] > b

\* A finite sequence of naturals has a bound: of those that had none, take a shortest.
LEMMA ListBounded == \A n \in Nat : ~ Unbounded(n)
<1> DEFINE T == {n \in Nat : Unbounded(n)}
<1>1. SUFFICES ASSUME T # {} PROVE FALSE
  OBVIOUS
<1>2. T \in SUBSET Nat
  OBVIOUS
<1>3. PICK n \in T : \A m \in T : n <= m
  <2> HIDE DEF T
  <2>1. QED
    BY <1>1, <1>2, Least
<1>4. n \in Nat /\ Unbounded(n)
  OBVIOUS
<1>5. PICK f \in [1..n -> Nat] : \A b \in Nat : \E i \in 1..n : f[i] > b
  BY <1>4 DEF Unbounded
<1>6. n # 0
  BY <1>5
<1>7. n - 1 \in Nat /\ n - 1 \notin T
  BY <1>3, <1>4, <1>6
<1> DEFINE g == [i \in 1..(n-1) |-> f[i]]
<1>8. g \in [1..(n-1) -> Nat]
  BY <1>4, <1>6
<1>9. \E b \in Nat : \A i \in 1..(n-1) : ~ (g[i] > b)
  BY <1>7, <1>8 DEF Unbounded
<1>10. PICK b \in Nat : \A i \in 1..(n-1) : ~ (g[i] > b)
  BY <1>9
<1>11. f[n] \in Nat
  BY <1>4, <1>6
<1>12. \A i \in 1..n : f[i] <= b + f[n]
  BY <1>4, <1>6, <1>10, <1>11
<1>13. b + f[n] \in Nat
  BY <1>11
<1>14. PICK i \in 1..n : f[i] > b + f[n]
  BY <1>5, <1>13
<1>15. f[i] \in Nat /\ f[i] <= b + f[n]
  BY <1>4, <1>12
<1>16. QED
  BY <1>11, <1>14, <1>15

LEMMA MaxOfFinite ==
    ASSUME NEW S \in SUBSET Nat, IsFiniteSet(S), S # {}
    PROVE  Max(S) \in S /\ \A x \in S : x <= Max(S)
<1> DEFINE n == Cardinality(S)
<1>0. n \in Nat /\ ExistsBijection(1..n, S)
  BY FS_CardinalityType
<1> HIDE DEF n
<1>1. PICK f \in [1..n -> S] : \A y \in S : \E i \in 1..n : f[i] = y
  BY <1>0 DEF ExistsBijection, Bijection, Injection, Surjection
<1>2. f \in [1..n -> Nat]
  BY <1>1
<1>3. PICK c \in Nat : \A i \in 1..n : f[i] <= c
  <2>1. ~ Unbounded(n)
    BY <1>0, ListBounded
  <2>2. PICK c \in Nat : \A i \in 1..n : ~ (f[i] > c)
    BY <1>2, <2>1 DEF Unbounded
  <2>3. ASSUME NEW i \in 1..n PROVE f[i] <= c
    <3>1. f[i] \in Nat /\ ~ (f[i] > c)
      BY <1>2, <2>2
    <3>2. QED
      BY <3>1
  <2>4. QED
    BY <2>3
<1>4. \A y \in S : y <= c
  BY <1>1, <1>3
<1> DEFINE T == {b \in Nat : \A y \in S : y <= b}
<1>5. T \in SUBSET Nat /\ T # {}
  BY <1>4
<1>6. PICK b \in T : \A d \in T : b <= d
  <2> HIDE DEF T
  <2>1. QED
    BY <1>5, Least
<1>7. b \in S
  <2>1. SUFFICES ASSUME b \notin S PROVE FALSE
    OBVIOUS
  <2>2. PICK y \in S : TRUE
    OBVIOUS
  <2>3. y < b /\ b - 1 \in Nat
    BY <2>1, <2>2
  <2>4. b - 1 \in T
    BY <2>1, <2>3
  <2>5. QED
    BY <1>6, <2>3, <2>4
<1>8. \E x \in S : \A y \in S : x >= y
  BY <1>7
<1>9. QED
  BY <1>8 DEF Max

PointLists == UNION {[S -> CurvePoint] : S \in SUBSET Nat}
SeriesLists == UNION {[S -> [id : Probes, points : PointLists]] : S \in SUBSET Nat}
Charts == [series : SeriesLists, visible : SUBSET Probes, ticked : SUBSET Probes,
           current : CurvePoint \union {NoValue}, empty : BOOLEAN, error : BOOLEAN]

\* Series and their points are finitely many, and each has the points of its detector.
SoundSeries(series) ==
    /\ series \in SeriesLists /\ IsFiniteSet(DOMAIN series)
    /\ \A k \in DOMAIN series : /\ IsFiniteSet(DOMAIN series[k].points)
                                /\ \A n \in DOMAIN series[k].points : series[k].points[n].id = series[k].id
SoundChart(w) ==
    /\ w \in Charts /\ SoundSeries(w.series) /\ w.visible = w.ticked /\ w.visible \subseteq SeriesOf(w)
    /\ w.current = Latest(w.series, w.ticked) /\ w.empty = (Drawn(w.series, w.ticked) = {})

LEMMA SeriesParts ==
    ASSUME NEW series, SoundSeries(series)
    PROVE  /\ DOMAIN series \in SUBSET Nat /\ IsFiniteSet(DOMAIN series)
           /\ \A k \in DOMAIN series :
                 /\ series[k].id \in Probes /\ series[k].points \in PointLists
                 /\ DOMAIN series[k].points \in SUBSET Nat /\ IsFiniteSet(DOMAIN series[k].points)
                 /\ \A n \in DOMAIN series[k].points :
                       series[k].points[n] \in CurvePoint /\ series[k].points[n].id = series[k].id
<1>1. PICK S \in SUBSET Nat : series \in [S -> [id : Probes, points : PointLists]]
  BY DEF SoundSeries, SeriesLists
<1>2. ASSUME NEW k \in DOMAIN series
      PROVE  /\ series[k].id \in Probes /\ series[k].points \in PointLists
             /\ DOMAIN series[k].points \in SUBSET Nat
             /\ \A n \in DOMAIN series[k].points : series[k].points[n] \in CurvePoint
  <2>1. series[k] \in [id : Probes, points : PointLists]
    BY <1>1, <1>2
  <2>2. PICK T \in SUBSET Nat : series[k].points \in [T -> CurvePoint]
    BY <2>1 DEF PointLists
  <2>3. QED
    BY <2>1, <2>2
<1>3. QED
  BY <1>1, <1>2 DEF SoundSeries

\* The current value is that of a point, if a curve is drawn.
LEMMA LatestIs ==
    ASSUME NEW series, SoundSeries(series), NEW visible
    PROVE  /\ Latest(series, visible) \in CurvePoint \union {NoValue}
           /\ Drawn(series, visible) = {} <=> Latest(series, visible) = NoValue
<1> DEFINE D == Drawn(series, visible)
<1>1. CASE D = {}
  BY <1>1 DEF Latest
<1>2. CASE D # {}
  <2>1. D \in SUBSET Nat /\ IsFiniteSet(D)
    <3>1. D \subseteq DOMAIN series
      BY DEF Drawn
    <3>2. QED
      BY <3>1, SeriesParts, FS_Subset
  <2> DEFINE k == Max(D)
             pts == series[k].points
             T == {n \in DOMAIN pts : pts[n].value # NoValue}
  <2> HIDE DEF D
  <2>2. k \in D
    BY <1>2, <2>1, MaxOfFinite
  <2>3. k \in DOMAIN series /\ HasValue(pts)
    BY <2>2 DEF D, Drawn
  <2> HIDE DEF k
  <2>4. /\ DOMAIN pts \in SUBSET Nat /\ IsFiniteSet(DOMAIN pts)
        /\ \A n \in DOMAIN pts : pts[n] \in CurvePoint
    BY <2>3, SeriesParts
  <2> HIDE DEF pts
  <2>5. T \in SUBSET Nat /\ T # {} /\ IsFiniteSet(T)
    <3>1. T \subseteq DOMAIN pts
      OBVIOUS
    <3>2. T # {}
      BY <2>3 DEF HasValue
    <3>3. QED
      BY <2>4, <3>1, <3>2, FS_Subset
  <2> DEFINE n == Max(T)
  <2>6. n \in T
    <3> HIDE DEF T
    <3>1. QED
      BY <2>5, MaxOfFinite
  <2>7. Latest(series, visible) = pts[n]
    <3>1. ~ (Drawn(series, visible) = {})
      BY <1>2 DEF D
    <3>2. QED
      BY <3>1, Zenon DEF Latest, D, k, pts
  <2> HIDE DEF n
  <2>8. pts[n] \in CurvePoint /\ pts[n] # NoValue
    BY <2>4, <2>6, ChartAssumption
  <2>9. Latest(series, visible) \in CurvePoint \union {NoValue} /\ Latest(series, visible) # NoValue
    BY <2>7, <2>8
  <2>10. QED
    BY <1>2, <2>9 DEF D
<1>3. QED
  BY <1>1, <1>2

LEMMA SoundIsTrue == ASSUME NEW w, SoundChart(w) PROVE WidgetTrue(w)
<1>1. Drawn(w.series, w.ticked) = {} <=> Latest(w.series, w.ticked) = NoValue
  BY LatestIs DEF SoundChart
<1>2. \A k \in DOMAIN w.series : \A n \in DOMAIN w.series[k].points :
          w.series[k].points[n].id = w.series[k].id
  BY SeriesParts DEF SoundChart
<1>3. /\ w.visible = w.ticked /\ w.visible \subseteq SeriesOf(w)
      /\ w.current = Latest(w.series, w.ticked) /\ w.empty = (Drawn(w.series, w.ticked) = {})
  BY DEF SoundChart
<1>4. w.empty <=> w.current = NoValue
  BY <1>1, <1>3
<1>5. QED
  BY <1>2, <1>3, <1>4 DEF WidgetTrue

LEMMA Redrawn ==
    ASSUME NEW w, w \in Charts, NEW series, SoundSeries(series),
           NEW visible \in SUBSET {series[k].id : k \in DOMAIN series}
    PROVE  /\ SoundChart([_redrawn(w, series, visible) EXCEPT !.ticked = visible])
           /\ [_redrawn(w, series, visible) EXCEPT !.ticked = visible].series = series
           /\ [_redrawn(w, series, visible) EXCEPT !.ticked = visible].error = w.error
<1> DEFINE v == [_redrawn(w, series, visible) EXCEPT !.ticked = visible]
<1>1. visible \in SUBSET Probes /\ Latest(series, visible) \in CurvePoint \union {NoValue} /\ series \in SeriesLists
  BY SeriesParts, LatestIs DEF SoundSeries
<1>2. /\ v \in Charts /\ v.series = series /\ v.visible = visible /\ v.ticked = visible
      /\ v.current = Latest(series, visible) /\ v.empty = (Drawn(series, visible) = {})
      /\ v.error = w.error
  BY <1>1 DEF _redrawn, Charts
<1> HIDE DEF v
<1>3. SoundChart(v)
  BY <1>2 DEF SoundChart, SeriesOf
<1>4. QED
  BY <1>2, <1>3 DEF v

LEMMA SetSeries ==
    ASSUME NEW w, SoundChart(w), NEW series, SoundSeries(series)
    PROVE  SoundChart(set_series(w, series)) /\ set_series(w, series).series = series
<1> DEFINE ids == {series[k].id : k \in DOMAIN series}
           visible == IF w.visible \intersect ids = {} THEN ids ELSE w.visible \intersect ids
<1>1. visible \in SUBSET ids /\ w \in Charts
  BY DEF SoundChart
<1>2. set_series(w, series) = [_redrawn(w, series, visible) EXCEPT !.ticked = visible]
  BY DEF set_series
<1> HIDE DEF visible
<1>3. QED
  BY <1>1, <1>2, Redrawn

LEMMA Toggled ==
    ASSUME NEW w, SoundChart(w), NEW id \in SeriesOf(w)
    PROVE  /\ SoundChart(_toggle_series(w, id)) /\ _toggle_series(w, id).series = w.series
           /\ _toggle_series(w, id).error = w.error
<1> DEFINE visible == IF id \in w.ticked THEN w.ticked \ {id} ELSE w.ticked \union {id}
<1>1. visible \in SUBSET {w.series[k].id : k \in DOMAIN w.series} /\ w \in Charts /\ SoundSeries(w.series)
  BY DEF SoundChart, SeriesOf
<1>2. _toggle_series(w, id) = [_redrawn(w, w.series, visible) EXCEPT !.ticked = visible]
  BY DEF _toggle_series, SoundChart
<1> HIDE DEF visible
<1>3. QED
  BY <1>1, <1>2, Redrawn

HistoryForms == [period : Periods \union {LastHour}, ids : Seq(Probes), status : StatusFilters \union {"all"}]
Pasts == [form : HistoryForms, filters : HistoryForms, rows : Seq(CurvePoint), state : {"ready", "empty", "error"},
          export : BOOLEAN, chart : Charts]

\* The readings of a detector, and those of them that are kept.
ReadingsInv ==
    /\ minute \in Nat /\ typed \in Seq(Probes)
    /\ cached \in [Probes -> Seq(CurvePoint)] /\ received \in [Probes -> Seq(CurvePoint)]
    /\ \A id \in Probes : /\ ToSet(cached[id]) \subseteq ToSet(received[id])
                          /\ \A n \in DOMAIN cached[id] : cached[id][n].id = id

Received(series, readings) ==
    \A k \in DOMAIN series : ToSet(series[k].points) \subseteq ToSet(readings[series[k].id])
LiveInv == SoundChart(live) /\ Received(live.series, received)

\* The records that are shown; that a table may be exported means that it is the answer.
ShownPoints(series) == UNION {ToSet(series[k].points) : k \in DOMAIN series}
PastInv ==
    /\ past \in Pasts /\ SoundChart(past.chart) /\ ShownPoints(past.chart.series) = ToSet(past.rows)
    /\ past.chart.error <=> past.state = "error"
    /\ past.export => /\ ~ lastAnswer.failed /\ past.rows = lastAnswer.rows
                      /\ past.filters = lastAnswer.filters

ChartPageInv == ReadingsInv /\ LiveInv /\ PastInv

LEMMA SequenceOfPoints ==
    ASSUME NEW pts \in Seq(CurvePoint), NEW S \in SUBSET DOMAIN pts
    PROVE  /\ Restrict(pts, S) \in PointLists /\ DOMAIN Restrict(pts, S) = S
           /\ \A n \in S : Restrict(pts, S)[n] = pts[n]
           /\ S \in SUBSET Nat /\ IsFiniteSet(S)
<1>1. DOMAIN pts = 1..Len(pts) /\ Len(pts) \in Nat /\ \A n \in DOMAIN pts : pts[n] \in CurvePoint
  OBVIOUS
<1>2. IsFiniteSet(DOMAIN pts) /\ S \in SUBSET Nat
  BY <1>1, FS_Interval
<1>3. IsFiniteSet(S)
  BY <1>2, FS_Subset
<1>4. Restrict(pts, S) \in [S -> CurvePoint] /\ \A n \in S : Restrict(pts, S)[n] = pts[n]
  BY <1>1 DEF Restrict
<1>5. Restrict(pts, S) \in PointLists
  BY <1>2, <1>4, Zenon DEF PointLists
<1>6. QED
  BY <1>2, <1>3, <1>4, <1>5

\* The curves of the last minutes.
LEMMA RealtimeSeries ==
    ASSUME ReadingsInv, NEW ids \in Seq(Probes)
    PROVE  SoundSeries(_series_from_realtime(ids)) /\ Received(_series_from_realtime(ids), received)
<1> DEFINE recent(pts) == {n \in DOMAIN pts : pts[n].at >= minute - Lookback}
           series == _series_from_realtime(ids)
           one(k) == [id |-> ids[k], points |-> Restrict(cached[ids[k]], recent(cached[ids[k]]))]
<1>1. series = [k \in DOMAIN ids |-> one(k)]
  BY DEF _series_from_realtime, get_realtime_series
<1>2. DOMAIN ids = 1..Len(ids) /\ Len(ids) \in Nat /\ \A k \in DOMAIN ids : ids[k] \in Probes
  OBVIOUS
<1>3. ASSUME NEW k \in DOMAIN ids
      PROVE  /\ one(k) \in [id : Probes, points : PointLists] /\ one(k).id = ids[k]
             /\ IsFiniteSet(DOMAIN one(k).points)
             /\ \A n \in DOMAIN one(k).points : one(k).points[n].id = ids[k]
             /\ ToSet(one(k).points) \subseteq ToSet(received[ids[k]])
  <2> DEFINE id == ids[k]
             S == recent(cached[id])
  <2>1. id \in Probes /\ cached[id] \in Seq(CurvePoint) /\ S \in SUBSET DOMAIN cached[id]
    BY <1>2 DEF ReadingsInv
  <2>2. /\ ToSet(cached[id]) \subseteq ToSet(received[id])
        /\ \A n \in DOMAIN cached[id] : cached[id][n].id = id
    BY <2>1 DEF ReadingsInv
  <2>3. one(k) = [id |-> id, points |-> Restrict(cached[id], S)]
    OBVIOUS
  <2> HIDE DEF S, id, one
  <2>4. /\ Restrict(cached[id], S) \in PointLists /\ DOMAIN Restrict(cached[id], S) = S
        /\ \A n \in S : Restrict(cached[id], S)[n] = cached[id][n]
        /\ IsFiniteSet(S)
    BY <2>1, SequenceOfPoints
  <2>5. ToSet(Restrict(cached[id], S)) \subseteq ToSet(cached[id])
    BY <2>1, <2>4 DEF ToSet
  <2>6. QED
    BY <2>1, <2>2, <2>3, <2>4, <2>5 DEF id
<1> HIDE DEF one, series
<1>4. DOMAIN series = DOMAIN ids /\ \A k \in DOMAIN ids : series[k] = one(k)
  BY <1>1
<1>5. series \in [DOMAIN ids -> [id : Probes, points : PointLists]]
  BY <1>1, <1>3
<1>6. series \in SeriesLists
  <2>1. DOMAIN ids \in SUBSET Nat
    BY <1>2
  <2>2. QED
    BY <1>5, <2>1, Zenon DEF SeriesLists
<1>7. IsFiniteSet(DOMAIN series)
  BY <1>2, <1>4, FS_Interval
<1>8. SoundSeries(series) /\ Received(series, received)
  BY <1>3, <1>4, <1>6, <1>7 DEF SoundSeries, Received
<1>9. QED
  BY <1>8 DEF series

\* The curves of the records have their points, each in the curve of its detector.
LEMMA HistorySeries ==
    ASSUME NEW pts \in Seq(CurvePoint)
    PROVE  /\ SoundSeries(_series_from_history(pts))
           /\ ShownPoints(_series_from_history(pts)) = ToSet(pts)
<1> DEFINE ids == {pts[n].id : n \in DOMAIN pts}
           of(k) == {n \in DOMAIN pts : pts[n].id = k}
           one(k) == [id |-> k, points |-> Restrict(pts, of(k))]
           series == _series_from_history(pts)
<1>1. series = [k \in ids |-> one(k)]
  BY DEF _series_from_history
<1>2. /\ DOMAIN pts = 1..Len(pts) /\ Len(pts) \in Nat
      /\ \A n \in DOMAIN pts : pts[n] \in CurvePoint /\ pts[n].id \in Probes
  <2>1. DOMAIN pts = 1..Len(pts) /\ Len(pts) \in Nat /\ \A n \in DOMAIN pts : pts[n] \in CurvePoint
    OBVIOUS
  <2>2. \A p \in CurvePoint : p.id \in Probes
    BY DEF CurvePoint
  <2>3. QED
    BY <2>1, <2>2
<1>3. IsFiniteSet(ids) /\ ids \in SUBSET Probes /\ Probes \subseteq Nat
  <2>1. IsFiniteSet(DOMAIN pts)
    BY <1>2, FS_Interval
  <2> DEFINE f == [n \in DOMAIN pts |-> pts[n].id]
  <2>2. f \in [DOMAIN pts -> ids] /\ \A i \in ids : \E n \in DOMAIN pts : f[n] = i
    OBVIOUS
  <2>3. f \in Surjection(DOMAIN pts, ids)
    BY <2>2 DEF Surjection
  <2> HIDE DEF f, ids
  <2>4. IsFiniteSet(ids)
    BY <2>1, <2>3, FS_Surjection
  <2>5. QED
    BY <1>2, <2>4, ChartAssumption DEF ids
<1>4. ASSUME NEW k \in ids
      PROVE  /\ one(k) \in [id : Probes, points : PointLists] /\ one(k).id = k
             /\ IsFiniteSet(DOMAIN one(k).points)
             /\ \A n \in DOMAIN one(k).points : one(k).points[n].id = k
             /\ ToSet(one(k).points) = {pts[n] : n \in of(k)}
  <2>1. of(k) \in SUBSET DOMAIN pts /\ \A n \in of(k) : pts[n].id = k
    OBVIOUS
  <2>2. k \in Probes
    BY <1>3
  <2> HIDE DEF of
  <2>3. /\ Restrict(pts, of(k)) \in PointLists /\ DOMAIN Restrict(pts, of(k)) = of(k)
        /\ \A n \in of(k) : Restrict(pts, of(k))[n] = pts[n]
        /\ IsFiniteSet(of(k))
    BY <2>1, SequenceOfPoints
  <2>4. ToSet(Restrict(pts, of(k))) = {pts[n] : n \in of(k)}
    BY <2>3 DEF ToSet
  <2>5. QED
    BY <2>1, <2>2, <2>3, <2>4
<1> HIDE DEF one, series
<1>5. DOMAIN series = ids /\ \A k \in ids : series[k] = one(k)
  BY <1>1
<1>6. series \in [ids -> [id : Probes, points : PointLists]]
  BY <1>1, <1>4
<1>7. series \in SeriesLists
  <2>1. ids \in SUBSET Nat
    BY <1>3
  <2> HIDE DEF ids
  <2>2. QED
    BY <1>6, <2>1, Zenon DEF SeriesLists
<1>8. SoundSeries(series)
  BY <1>3, <1>4, <1>5, <1>7 DEF SoundSeries
<1>9. ShownPoints(series) = ToSet(pts)
  <2>1. \A k \in ids : ToSet(series[k].points) = {pts[n] : n \in of(k)}
    BY <1>4, <1>5
  <2>2. ASSUME NEW p \in ShownPoints(series) PROVE p \in ToSet(pts)
    <3>1. PICK k \in ids : p \in ToSet(series[k].points)
      BY <1>5, <2>2 DEF ShownPoints
    <3>2. PICK n \in of(k) : p = pts[n]
      BY <2>1, <3>1
    <3>3. QED
      BY <3>2 DEF ToSet
  <2>3. ASSUME NEW p \in ToSet(pts) PROVE p \in ShownPoints(series)
    <3>1. PICK n \in DOMAIN pts : p = pts[n]
      BY <2>3 DEF ToSet
    <3>2. n \in of(pts[n].id) /\ pts[n].id \in ids
      OBVIOUS
    <3>3. p \in ToSet(series[pts[n].id].points)
      BY <2>1, <3>1, <3>2
    <3>4. QED
      BY <1>5, <3>2, <3>3, Zenon DEF ShownPoints
  <2>4. QED
    BY <2>2, <2>3
<1>10. QED
  BY <1>8, <1>9 DEF series

LEMMA ChartStart == ChartInit => ChartPageInv
<1>1. SUFFICES ASSUME ChartInit PROVE ChartPageInv
  OBVIOUS
<1> DEFINE none == <<>>
<1>2. none \in Seq(CurvePoint) /\ none \in Seq(Probes) /\ DOMAIN none = {}
  OBVIOUS
<1>3. SoundSeries(none)
  <2>1. none \in [{} -> [id : Probes, points : PointLists]]
    OBVIOUS
  <2>2. none \in SeriesLists
    BY <2>1, Zenon DEF SeriesLists
  <2>3. QED
    BY <1>2, <2>2, FS_EmptySet DEF SoundSeries
<1>4. NewChart \in Charts /\ NewChart.series = none /\ NewChart.ticked = {} /\ NewChart.visible = {}
      /\ NewChart.current = NoValue /\ NewChart.empty = TRUE /\ NewChart.error = FALSE
  BY <1>3 DEF NewChart, Charts, SoundSeries
<1>5. Drawn(none, {}) = {} /\ Latest(none, {}) = NoValue
  BY DEF Drawn, Latest
<1> HIDE DEF none
<1>6. SoundChart(NewChart)
  BY <1>3, <1>4, <1>5 DEF SoundChart
<1>7. ReadingsInv
  <2>1. cached = [id \in Probes |-> none] /\ received = cached /\ typed = none /\ minute = 0
    BY <1>1 DEF ChartInit, NewCache, NewPast, none
  <2>2. QED
    BY <1>2, <2>1 DEF ReadingsInv
<1>8. LiveInv
  BY <1>1, <1>2, <1>4, <1>6 DEF ChartInit, NewCache, LiveInv, Received
<1>9. PastInv
  <2>1. NoFilter \in HistoryForms
    BY <1>2 DEF NoFilter, HistoryForms, none
  <2>2. past = [form |-> NoFilter, filters |-> NoFilter, rows |-> none, state |-> "ready",
                export |-> FALSE, chart |-> NewChart]
    BY <1>1 DEF ChartInit, NewCache, NewPast, none
  <2>3. past \in Pasts
    BY <1>2, <1>4, <2>1, <2>2 DEF Pasts
  <2>4. ShownPoints(none) = {} /\ ToSet(none) = {}
    BY <1>2 DEF ShownPoints, ToSet
  <2>5. QED
    BY <1>4, <1>6, <2>2, <2>3, <2>4 DEF PastInv
<1>10. QED
  BY <1>7, <1>8, <1>9 DEF ChartPageInv

LEMMA StoreSteps ==
    ASSUME ChartPageInv, update_readings \/ Minute \/ type_ids
    PROVE  ChartPageInv'
<1>1. ReadingsInv /\ LiveInv /\ PastInv
  BY DEF ChartPageInv
<1>2. ASSUME UNCHANGED <<past, lastAnswer>> PROVE PastInv'
  BY <1>1, <1>2 DEF PastInv
<1>3. CASE update_readings
  <2>1. PICK id \in Probes, value \in Values \union {NoValue} :
            LET point == [id |-> id, value |-> value, at |-> minute]
            IN  /\ cached' = [cached EXCEPT ![id] = _curve_cache(Append(@, point))]
                /\ received' = [received EXCEPT ![id] = Append(@, point)]
    BY <1>3 DEF update_readings
  <2> DEFINE point == [id |-> id, value |-> value, at |-> minute]
             kept == Append(cached[id], point)
             all == Append(received[id], point)
  <2>2. point \in CurvePoint /\ point.id = id /\ cached[id] \in Seq(CurvePoint) /\ received[id] \in Seq(CurvePoint)
    BY <1>1 DEF ReadingsInv, CurvePoint
  <2>3. cached' = [cached EXCEPT ![id] = _curve_cache(kept)] /\ received' = [received EXCEPT ![id] = all]
    BY <2>1
  <2> HIDE DEF point
  <2>4. /\ kept \in Seq(CurvePoint) /\ all \in Seq(CurvePoint)
        /\ Len(kept) = Len(cached[id]) + 1 /\ kept[Len(kept)] = point
        /\ \A n \in 1..Len(cached[id]) : kept[n] = cached[id][n]
        /\ ToSet(received[id]) \subseteq ToSet(all) /\ point \in ToSet(all)
    <3>1. Len(all) = Len(received[id]) + 1 /\ all[Len(all)] = point
          /\ \A n \in 1..Len(received[id]) : all[n] = received[id][n]
      BY <2>2
    <3>2. QED
      BY <2>2, <3>1 DEF ToSet
  <2>5. \A n \in DOMAIN kept : kept[n] \in ToSet(all) /\ kept[n].id = id
    <3>1. ASSUME NEW n \in DOMAIN kept PROVE kept[n] \in ToSet(all) /\ kept[n].id = id
      <4>1. CASE n = Len(kept)
        BY <2>2, <2>4, <4>1
      <4>2. CASE n # Len(kept)
        <5>1. n \in DOMAIN cached[id] /\ kept[n] = cached[id][n]
          BY <2>2, <2>4, <4>2
        <5>2. cached[id][n] \in ToSet(received[id]) /\ cached[id][n].id = id
          BY <1>1, <5>1 DEF ReadingsInv, ToSet
        <5>3. QED
          BY <2>4, <5>1, <5>2
      <4>3. QED
        BY <4>1, <4>2
    <3>2. QED
      BY <3>1
  <2> HIDE DEF kept, all
  <2> DEFINE cut == _curve_cache(kept)
  <2>6. cut \in Seq(CurvePoint) /\ \A n \in DOMAIN cut : \E m \in DOMAIN kept : cut[n] = kept[m]
    <3>1. CASE cut = kept
      BY <2>4, <3>1
    <3>2. CASE cut = Tail(kept)
      <4>1. kept # <<>> /\ Len(kept) \in Nat
        <5>1. Len(cached[id]) \in Nat
          BY <2>2
        <5>2. QED
          BY <2>4, <5>1
      <4>2. Tail(kept) \in Seq(CurvePoint) /\ Len(Tail(kept)) = Len(kept) - 1
            /\ \A n \in 1..Len(Tail(kept)) : Tail(kept)[n] = kept[n+1] /\ n + 1 \in DOMAIN kept
        BY <2>4, <4>1
      <4>3. \A n \in DOMAIN Tail(kept) : \E m \in DOMAIN kept : Tail(kept)[n] = kept[m]
        BY <4>2
      <4>4. QED
        BY <3>2, <4>2, <4>3
    <3>3. cut = kept \/ cut = Tail(kept)
      BY DEF _curve_cache
    <3>4. QED
      BY <3>1, <3>2, <3>3
  <2> HIDE DEF cut
  <2>7. cached' = [cached EXCEPT ![id] = cut]
    BY <2>3 DEF cut
  <2>8. ToSet(cut) \subseteq ToSet(all) /\ \A n \in DOMAIN cut : cut[n].id = id
    BY <2>5, <2>6 DEF ToSet
  <2>9. UNCHANGED <<minute, typed, live, past, lastAnswer>>
    BY <1>3 DEF update_readings
  <2>10. /\ cached' \in [Probes -> Seq(CurvePoint)] /\ received' \in [Probes -> Seq(CurvePoint)]
         /\ \A i \in Probes \ {id} : cached'[i] = cached[i] /\ received'[i] = received[i]
         /\ cached'[id] = cut /\ received'[id] = all
    BY <1>1, <2>3, <2>4, <2>6, <2>7 DEF ReadingsInv
  <2>11. ReadingsInv'
    BY <1>1, <2>8, <2>9, <2>10 DEF ReadingsInv
  <2>12. \A i \in Probes : ToSet(received[i]) \subseteq ToSet(received'[i])
    BY <2>4, <2>10
  <2>13. LiveInv'
    <3>1. \A k \in DOMAIN live.series : live.series[k].id \in Probes
      BY <1>1, SeriesParts DEF LiveInv, SoundChart
    <3>2. Received(live.series, received')
      BY <1>1, <2>12, <3>1 DEF LiveInv, Received
    <3>3. QED
      BY <1>1, <2>9, <3>2 DEF LiveInv
  <2>14. QED
    BY <1>2, <2>9, <2>11, <2>13 DEF ChartPageInv
<1>4. CASE Minute
  <2>1. ReadingsInv'
    BY <1>1, <1>4 DEF Minute, ReadingsInv
  <2>2. QED
    BY <1>1, <1>2, <1>4, <2>1 DEF Minute, LiveInv, ChartPageInv
<1>5. CASE type_ids
  <2>1. typed' \in Seq(Probes)
    BY <1>5, ChartAssumption DEF type_ids, _parse_ids
  <2>2. ReadingsInv'
    BY <1>1, <1>5, <2>1 DEF type_ids, ReadingsInv
  <2>3. QED
    BY <1>1, <1>2, <1>5, <2>2 DEF type_ids, LiveInv, ChartPageInv
<1>6. QED
  BY <1>3, <1>4, <1>5

LEMMA FlagSet ==
    ASSUME NEW w, SoundChart(w), NEW flag \in BOOLEAN
    PROVE  /\ SoundChart([w EXCEPT !.error = flag]) /\ [w EXCEPT !.error = flag].series = w.series
           /\ [w EXCEPT !.error = flag].error = flag
<1> DEFINE v == [w EXCEPT !.error = flag]
<1>1. /\ v \in Charts /\ v.series = w.series /\ v.visible = w.visible /\ v.ticked = w.ticked
      /\ v.current = w.current /\ v.empty = w.empty /\ v.error = flag
  BY DEF SoundChart, Charts
<1> HIDE DEF v
<1>2. SoundChart(v)
  BY <1>1 DEF SoundChart, SeriesOf
<1>3. QED
  BY <1>1, <1>2 DEF v

LEMMA LoadedChart ==
    ASSUME NEW w, SoundChart(w)
    PROVE  SoundChart(set_loading(w)) /\ set_loading(w).series = w.series
<1> DEFINE v == set_loading(w)
<1>1. /\ v \in Charts /\ v.series = w.series /\ v.visible = w.visible /\ v.ticked = w.ticked
      /\ v.current = w.current /\ v.empty = (Drawn(w.series, w.visible) = {})
  BY DEF set_loading, SoundChart, Charts
<1> HIDE DEF v
<1>2. SoundChart(v)
  BY <1>1 DEF SoundChart, SeriesOf
<1>3. QED
  BY <1>1, <1>2 DEF v

LEMMA Realtime == ASSUME ChartPageInv, refresh_realtime PROVE ChartPageInv'
<1>1. ReadingsInv /\ LiveInv /\ PastInv
  BY DEF ChartPageInv
<1>2. SoundChart(live') /\ Received(live'.series, received)
  <2>1. CASE live' = [live EXCEPT !.error = TRUE]
    BY <1>1, <2>1, FlagSet DEF LiveInv
  <2>2. CASE live' = [set_series(live, _series_from_realtime(typed)) EXCEPT !.error = FALSE]
    <3> DEFINE series == _series_from_realtime(typed)
               w == set_series(live, series)
    <3>1. SoundSeries(series) /\ Received(series, received)
      BY <1>1, RealtimeSeries DEF ReadingsInv
    <3> HIDE DEF series
    <3>2. SoundChart(w) /\ w.series = series
      BY <1>1, <3>1, SetSeries DEF LiveInv
    <3>3. live' = [w EXCEPT !.error = FALSE]
      BY <2>2 DEF series
    <3> HIDE DEF w
    <3>4. QED
      BY <3>1, <3>2, <3>3, FlagSet
  <2>3. QED
    BY <2>1, <2>2 DEF refresh_realtime
<1>3. UNCHANGED <<minute, cached, received, typed, past, lastAnswer>>
  BY DEF refresh_realtime
<1>4. ReadingsInv' /\ PastInv'
  BY <1>1, <1>3 DEF ReadingsInv, PastInv
<1>5. LiveInv'
  BY <1>2, <1>3 DEF LiveInv
<1>6. QED
  BY <1>4, <1>5 DEF ChartPageInv

\* Steps of the tab of records leave the readings alone.
LEMMA StoreKept ==
    ASSUME ReadingsInv, LiveInv, UNCHANGED <<minute, cached, received, typed, live>>
    PROVE  ReadingsInv' /\ LiveInv'
BY DEF ReadingsInv, LiveInv

LEMMA Edits == ASSUME ChartPageInv, edit_history \/ _reset_history_filter PROVE ChartPageInv'
<1>1. PICK edited \in HistoryForms : past' = [past EXCEPT !.form = edited]
  <2>1. CASE edit_history
    <3>1. PICK period \in Periods, ids \in IdTexts, status \in StatusFilters :
              past' = [past EXCEPT !.form = [period |-> period, ids |-> ids, status |-> status]]
      BY <2>1 DEF edit_history
    <3>2. [period |-> period, ids |-> ids, status |-> status] \in HistoryForms
      BY <3>1, ChartAssumption DEF HistoryForms, _parse_ids
    <3>3. QED
      BY <3>1, <3>2
  <2>2. CASE _reset_history_filter
    <3>1. [period |-> LastHour, ids |-> <<>>, status |-> "all"] \in HistoryForms
      BY DEF HistoryForms
    <3>2. QED
      BY <2>2, <3>1 DEF _reset_history_filter
  <2>3. QED
    BY <2>1, <2>2
<1>2. UNCHANGED <<minute, cached, received, typed, live, lastAnswer>>
  BY DEF edit_history, _reset_history_filter
<1>3. /\ past' \in Pasts /\ past'.chart = past.chart /\ past'.rows = past.rows /\ past'.state = past.state
      /\ past'.export = past.export /\ past'.filters = past.filters
  BY <1>1 DEF ChartPageInv, PastInv, Pasts
<1>4. PastInv'
  BY <1>2, <1>3 DEF ChartPageInv, PastInv
<1>5. QED
  BY <1>2, <1>4, StoreKept DEF ChartPageInv

LEMMA Asks == ASSUME ChartPageInv, query_history_page PROVE ChartPageInv'
<1> DEFINE p == _set_querying(past)
<1>1. PastInv /\ past \in Pasts /\ past.form \in HistoryForms
  BY DEF ChartPageInv, PastInv, Pasts
<1>2. SoundChart(set_loading(past.chart)) /\ set_loading(past.chart).series = past.chart.series
  BY <1>1, LoadedChart DEF PastInv
<1>3. /\ p \in Pasts /\ p.form = past.form /\ p.rows = past.rows /\ SoundChart(p.chart)
      /\ p.chart.series = past.chart.series
  BY <1>1, <1>2 DEF _set_querying, Pasts, SoundChart
<1> HIDE DEF p
<1>4. ASSUME past' = set_error(p) PROVE PastInv'
  <2> DEFINE w == [p.chart EXCEPT !.error = TRUE]
  <2>1. SoundChart(w) /\ w.series = past.chart.series /\ w.error = TRUE
    BY <1>3, FlagSet
  <2>2. past' = [p EXCEPT !.state = "error", !.export = FALSE, !.chart = w]
    BY <1>3, <1>4 DEF set_error, Pasts
  <2> HIDE DEF w
  <2>3. /\ past' \in Pasts /\ past'.chart = w /\ past'.rows = past.rows /\ past'.state = "error"
        /\ past'.export = FALSE
    BY <1>3, <2>1, <2>2 DEF Pasts, SoundChart
  <2>4. ShownPoints(past'.chart.series) = ToSet(past'.rows) /\ SoundChart(past'.chart)
    BY <1>1, <2>1, <2>3 DEF PastInv
  <2>5. past'.chart.error <=> past'.state = "error"
    BY <2>1, <2>3
  <2>6. QED
    BY <2>3, <2>4, <2>5 DEF PastInv
<1>5. ASSUME NEW pts \in Seq(CurvePoint), past' = ShowAnswer(p, pts),
             lastAnswer' = [failed |-> FALSE, filters |-> past.form, rows |-> pts]
      PROVE  PastInv'
  <2> DEFINE series == _series_from_history(pts)
             w == set_series(p.chart, series)
             v == [w EXCEPT !.error = FALSE]
  <2>1. SoundSeries(series) /\ ShownPoints(series) = ToSet(pts)
    BY HistorySeries
  <2> HIDE DEF series
  <2>2. SoundChart(w) /\ w.series = series
    BY <1>3, <2>1, SetSeries
  <2> HIDE DEF w
  <2>3. SoundChart(v) /\ v.series = series /\ v.error = FALSE
    BY <2>2, FlagSet
  <2> DEFINE state == IF pts = <<>> THEN "empty" ELSE "ready"
             some == pts # <<>>
  <2>4. past' = [p EXCEPT !.filters = p.form, !.rows = pts, !.export = some, !.state = state, !.chart = v]
    <3>1. past' = [[[p EXCEPT !.filters = p.form] EXCEPT !.rows = pts, !.export = pts # <<>>,
                        !.state = IF pts = <<>> THEN "empty" ELSE "ready"] EXCEPT !.chart = v]
      BY <1>5 DEF ShowAnswer, set_points, series, w
    <3> HIDE DEF v
    <3>2. QED
      BY <1>3, <3>1 DEF Pasts
  <2> HIDE DEF v
  <2>5. state \in {"ready", "empty", "error"} /\ state # "error" /\ some \in BOOLEAN
    OBVIOUS
  <2> HIDE DEF state, some
  <2>6. /\ past' \in Pasts /\ past'.chart = v /\ past'.rows = pts /\ past'.state = state
        /\ past'.export = some /\ past'.filters = past.form
    BY <1>1, <1>3, <2>3, <2>4, <2>5 DEF Pasts, SoundChart
  <2>7. QED
    BY <1>5, <2>1, <2>3, <2>5, <2>6 DEF PastInv
<1>6. PastInv'
  <2>1. CASE \E pts \in Replies :
                past' = ShowAnswer(p, pts)
                /\ lastAnswer' = [failed |-> FALSE, filters |-> past.form, rows |-> pts]
    <3>1. Replies \subseteq Seq(CurvePoint)
      BY ChartAssumption
    <3>2. QED
      BY <1>5, <2>1, <3>1
  <2>2. \/ past' = set_error(p) /\ lastAnswer' = [failed |-> TRUE, filters |-> past.form, rows |-> <<>>]
        \/ \E pts \in Replies :
              past' = ShowAnswer(p, pts)
              /\ lastAnswer' = [failed |-> FALSE, filters |-> past.form, rows |-> pts]
    BY Zenon DEF query_history_page, p
  <2>3. QED
    BY <1>4, <2>1, <2>2, Zenon
<1>7. UNCHANGED <<minute, cached, received, typed, live>>
  BY DEF query_history_page
<1>8. QED
  BY <1>6, <1>7, StoreKept DEF ChartPageInv

LEMMA ExportStep ==
    ASSUME ChartPageInv, _build_export
    PROVE  ChartPageInv' /\ (payload' # payload =>
              ~ lastAnswer.failed /\ payload' = [rows |-> lastAnswer.rows, filters |-> lastAnswer.filters])
<1>1. PastInv /\ past.export /\ past' = [past EXCEPT !.export = TRUE]
  BY DEF ChartPageInv, _build_export
<1>2. ~ lastAnswer.failed /\ past.rows = lastAnswer.rows /\ past.filters = lastAnswer.filters
  BY <1>1 DEF PastInv
<1>3. past' = past
  BY <1>1 DEF PastInv, Pasts
<1>4. UNCHANGED <<minute, cached, received, typed, live, lastAnswer>>
  BY DEF _build_export
<1>5. PastInv'
  BY <1>1, <1>3, <1>4 DEF PastInv
<1>6. QED
  BY <1>2, <1>4, <1>5, StoreKept DEF ChartPageInv, _build_export

LEMMA Toggles == ASSUME ChartPageInv, toggled PROVE ChartPageInv'
<1>1. ReadingsInv /\ LiveInv /\ PastInv /\ UNCHANGED <<minute, cached, received, typed, lastAnswer>>
  BY DEF ChartPageInv, toggled
<1>2. ReadingsInv'
  BY <1>1 DEF ReadingsInv
<1>3. CASE \E id \in SeriesOf(live) : live' = _toggle_series(live, id) /\ UNCHANGED past
  <2>1. SoundChart(live') /\ live'.series = live.series
    BY <1>1, <1>3, Toggled DEF LiveInv
  <2>2. LiveInv'
    BY <1>1, <2>1 DEF LiveInv
  <2>3. PastInv'
    BY <1>1, <1>3 DEF PastInv
  <2>4. QED
    BY <1>2, <2>2, <2>3 DEF ChartPageInv
<1>4. CASE \E id \in SeriesOf(past.chart) :
              past' = [past EXCEPT !.chart = _toggle_series(@, id)] /\ UNCHANGED live
  <2>1. PICK id \in SeriesOf(past.chart) : past' = [past EXCEPT !.chart = _toggle_series(@, id)]
    BY <1>4
  <2> DEFINE w == _toggle_series(past.chart, id)
  <2>2. SoundChart(w) /\ w.series = past.chart.series /\ w.error = past.chart.error
    BY <1>1, Toggled DEF PastInv
  <2>3. past' = [past EXCEPT !.chart = w]
    BY <2>1
  <2> HIDE DEF w
  <2>4. /\ past' \in Pasts /\ past'.chart = w /\ past'.rows = past.rows /\ past'.state = past.state
        /\ past'.export = past.export /\ past'.filters = past.filters
    BY <1>1, <2>2, <2>3 DEF PastInv, Pasts, SoundChart
  <2>5. PastInv'
    BY <1>1, <2>2, <2>4 DEF PastInv
  <2>6. LiveInv'
    BY <1>1, <1>4 DEF LiveInv
  <2>7. QED
    BY <1>2, <2>5, <2>6 DEF ChartPageInv
<1>5. QED
  BY <1>3, <1>4 DEF toggled

LEMMA ChartStep == ChartPageInv /\ [ChartNext]_chartVars => ChartPageInv'
<1>1. SUFFICES ASSUME ChartPageInv, [ChartNext]_chartVars PROVE ChartPageInv'
  OBVIOUS
<1>2. CASE UNCHANGED chartVars
  BY <1>1, <1>2 DEF chartVars, ChartPageInv, ReadingsInv, LiveInv, PastInv
<1>3. CASE ChartNext
  BY <1>1, <1>3, StoreSteps, Realtime, Edits, Asks, ExportStep, Toggles DEF ChartNext
<1>4. QED
  BY <1>1, <1>2, <1>3

LEMMA ChartsTrue == ChartPageInv => ChartsAreTrue
BY SoundIsTrue DEF ChartPageInv, LiveInv, PastInv, Received, ShownPoints, ChartsAreTrue

\* The step of ExportsTheAnswer.
AnswerExported == payload' # payload =>
    ~ lastAnswer.failed /\ payload' = [rows |-> lastAnswer.rows, filters |-> lastAnswer.filters]

LEMMA AnswerExportedStep == ChartPageInv /\ ChartNext => AnswerExported
<1>1. SUFFICES ASSUME ChartPageInv, ChartNext PROVE AnswerExported
  OBVIOUS
<1>2. CASE _build_export
  BY <1>1, <1>2, ExportStep DEF AnswerExported
<1>3. CASE payload' = payload
  BY <1>3 DEF AnswerExported
<1>4. QED
  BY <1>1, <1>2, <1>3 DEF ChartNext, update_readings, Minute, type_ids, refresh_realtime, edit_history,
     _reset_history_filter, query_history_page, toggled

\* For every set of detectors, readings and answers: the legends, the current values and
\* the curves are true, and what is exported is the answer to the last query.
THEOREM ChartPageKept == ChartSpec => []ChartsAreTrue /\ ExportsTheAnswer
<1>1. ChartPageInv /\ [ChartNext]_chartVars => [AnswerExported]_chartVars
  BY AnswerExportedStep
<1>2. QED
  BY <1>1, ChartStart, ChartStep, ChartsTrue, PTL DEF ChartSpec, ExportsTheAnswer, AnswerExported
-----------------------------------------------------------------------------
(* The three pages together.                                               *)

\* A behaviour of the three pages is one of each.
LEMMA PagesFollow == PageSideSpec => Spec /\ MapPageSpec /\ ChartSpec
<1>1. PageSideInit => Init /\ MapPageInit /\ ChartInit
  BY DEF PageSideInit
<1>2. [MaintenancePage \/ TheMapPage \/ TheChartPage]_pageSideVars =>
          [Next]_vars /\ [MapPageNext]_mapPageVars /\ [ChartNext]_chartVars
  BY DEF MaintenancePage, TheMapPage, TheChartPage, pageSideVars
<1>3. QED
  BY <1>1, <1>2, PTL DEF PageSideSpec, Spec, MapPageSpec, ChartSpec

\* What the maintenance cards, the map and the curves show is true, whatever is changed
\* behind them and between a user's steps.
THEOREM PagesAreTrueAlways == PageSideSpec => []PagesAreTrue
<1>1. CardsAreTrue /\ ChartsAreTrue /\ UnsavedIsTold => PagesAreTrue
  BY DEF PagesAreTrue
<1>2. QED
  BY <1>1, PagesFollow, CardsAreTrueAlways, MapPageKept, ChartPageKept, PTL

\* What is saved, deleted and exported on these pages is what they showed.
THEOREM EditsAsShownAlways == PageSideSpec => EditsAsShown
BY PagesFollow, EditKeepsTheRestAlways, MapPageKept, ChartPageKept, Zenon DEF EditsAsShown
-----------------------------------------------------------------------------
(***************************************************************************)
(* Records: what the records page deletes.  What its buttons act on, the   *)
(* row and the filters handed to the bar, is kept equal to what the table  *)
(* shows: the row selected and the query answered last.                    *)
(***************************************************************************)
PaneInv ==
    /\ lastId \in Nat /\ DOMAIN table \subseteq 1..lastId
    /\ asked = view.of /\ bar = [id |-> selected, filters |-> view.of]
    /\ selected # None => selected \in ToSet(view.rows)

\* A query that is answered or fails gives the table and the bar its filters, and one
\* that is not sent changes neither.
LEMMA QueryKeeps ==
    ASSUME asked = view.of, bar = [id |-> selected, filters |-> view.of],
           selected # None => selected \in ToSet(view.rows), NEW page_, query_records(page_)
    PROVE  /\ asked' = view'.of /\ bar' = [id |-> selected', filters |-> view'.of]
           /\ selected' # None => selected' \in ToSet(view'.rows)
<1>1. CASE /\ view' = [view EXCEPT !.state = "error"] /\ UNCHANGED <<asked, bar, selected, walk>>
  <2>1. view'.of = view.of /\ view'.rows = view.rows
    BY <1>1
  <2>2. QED
    BY <1>1, <2>1
<1>2. CASE asked' = Collected /\ _show_error(Collected, page_)
  BY <1>2 DEF _show_error, _sync_actions
<1>3. CASE asked' = Collected /\ _apply_page(Collected, page_, list_records(Collected, page_, form.size))
  BY <1>3 DEF _apply_page, _sync_actions
<1>4. QED
  BY <1>1, <1>2, <1>3 DEF query_records

\* What a step deletes: nothing, the row handed to the bar, or what the bar's filters
\* match.
LEMMA DeletedRows ==
    ASSUME lastId \in Nat, DOMAIN table \subseteq 1..lastId, NEW ids \in SUBSET DOMAIN table, Without(ids)
    PROVE  /\ DOMAIN table \ DOMAIN table' = ids
           /\ lastId' \in Nat /\ DOMAIN table' \subseteq 1..lastId'
<1>1. CASE /\ lastId' = lastId + 1
           /\ DOMAIN table' = (DOMAIN table \ ids) \union {lastId'}
  BY <1>1
<1>2. CASE table' = Restrict(table, DOMAIN table \ ids) /\ UNCHANGED lastId
  BY <1>2 DEF Restrict
<1>3. QED
  BY <1>1, <1>2 DEF Without

LEMMA PaneStep ==
    ASSUME PaneInv, [RecordsNext]_recVars
    PROVE  /\ PaneInv'
           /\ LET gone == DOMAIN table \ DOMAIN table'
              IN  gone = {} \/ gone = Matching(view.of) \/ (gone = {selected} /\ selected \in ToSet(view.rows))
<1> DEFINE gone == DOMAIN table \ DOMAIN table'
           Allowed == gone = {} \/ gone = Matching(view.of) \/ (gone = {selected} /\ selected \in ToSet(view.rows))
<1>1. ASSUME UNCHANGED <<table, lastId>>, NEW page_, query_records(page_) PROVE PaneInv' /\ Allowed
  BY <1>1, QueryKeeps DEF PaneInv
<1>2. ASSUME UNCHANGED <<table, lastId, asked, bar, view, selected>> PROVE PaneInv' /\ Allowed
  BY <1>2 DEF PaneInv
<1>3. CASE Search \/ Retry \/ TurnPage \/ _record_changed
  BY <1>1, <1>3 DEF Search, Retry, TurnPage, _record_changed, Data
<1>4. CASE EditForm \/ reset_filters \/ Tick \/ UNCHANGED recVars
  BY <1>2, <1>4 DEF EditForm, reset_filters, Tick, Data, recVars
<1>5. CASE _row_selected
  <2>1. PICK id \in Range(view.rows) : selected' = id /\ _sync_actions(id, asked)
    BY <1>5 DEF _row_selected
  <2>2. id \in ToSet(view.rows)
    BY <2>1 DEF Range, ToSet
  <2>3. UNCHANGED <<table, lastId, asked, view>>
    BY <1>5 DEF _row_selected, Data
  <2>4. QED
    BY <2>1, <2>2, <2>3 DEF PaneInv, _sync_actions
<1>6. CASE delete_selected
  <2>1. bar.id = selected /\ selected # None /\ selected \in DOMAIN table /\ Without({selected})
    BY <1>6 DEF PaneInv, delete_selected
  <2>2. gone = {selected} /\ lastId' \in Nat /\ DOMAIN table' \subseteq 1..lastId'
    BY <2>1, DeletedRows DEF PaneInv
  <2>3. UNCHANGED <<asked, bar, view, selected>>
    BY <1>6 DEF delete_selected
  <2>4. QED
    BY <2>1, <2>2, <2>3 DEF PaneInv
<1>7. CASE clear_current
  <2>1. bar.filters = view.of /\ Without(Matching(view.of))
    BY <1>7 DEF PaneInv, clear_current
  <2>2. Matching(view.of) \subseteq DOMAIN table
    BY DEF Matching
  <2>3. gone = Matching(view.of) /\ lastId' \in Nat /\ DOMAIN table' \subseteq 1..lastId'
    BY <2>1, <2>2, DeletedRows DEF PaneInv
  <2>4. UNCHANGED <<asked, bar, view, selected>>
    BY <1>7 DEF clear_current
  <2>5. QED
    BY <2>3, <2>4 DEF PaneInv
<1>8. CASE NewRow
  <2>1. lastId' = lastId + 1 /\ DOMAIN table' = DOMAIN table \union {lastId'}
    BY <1>8 DEF NewRow
  <2>2. UNCHANGED <<asked, bar, view, selected>>
    BY <1>8 DEF NewRow
  <2>3. QED
    BY <2>1, <2>2 DEF PaneInv
<1>9. ASSUME NEW id \in DOMAIN table, Recover(id) PROVE PaneInv' /\ Allowed
  <2>1. DOMAIN table' = DOMAIN table /\ UNCHANGED <<lastId, asked, bar, view, selected>>
    BY <1>9 DEF Recover
  <2>2. QED
    BY <2>1 DEF PaneInv
<1>10. ASSUME NEW d \in Curves, DetectorEdited(d) PROVE PaneInv' /\ Allowed
  BY <1>2, <1>10 DEF DetectorEdited
<1>11. QED
  BY <1>3, <1>4, <1>5, <1>6, <1>7, <1>8, <1>9, <1>10 DEF RecordsNext, Pane, Workers

LEMMA PaneStart == RecordsInit => PaneInv
<1> SUFFICES ASSUME RecordsInit PROVE PaneInv
  OBVIOUS
<1>1. Stamps \in Seq(Nat)
  BY RecordsAssumption, Zenon
<1>2. lastId = Len(Stamps) /\ DOMAIN table = DOMAIN Stamps
  BY DEF RecordsInit
<1>3. lastId \in Nat /\ DOMAIN table \subseteq 1..lastId
  BY <1>1, <1>2
<1>4. asked = view.of /\ bar = [id |-> selected, filters |-> view.of] /\ selected = None
  BY DEF RecordsInit
<1>5. QED
  BY <1>3, <1>4 DEF PaneInv

\* What is deleted is the row selected in the table, or all and only what matches the
\* filters of the query shown, however the editors were changed and whatever the
\* workers wrote since.
THEOREM ActsOnWhatIsShownAlways == RecordsSpec => ActsOnWhatIsShown
<1>1. PaneInv /\ [RecordsNext]_recVars => PaneInv'
  BY PaneStep
<1>2. PaneInv /\ [RecordsNext]_recVars =>
          [LET gone == DOMAIN table \ DOMAIN table'
           IN  gone = {} \/ gone = Matching(view.of)
               \/ (gone = {selected} /\ selected \in ToSet(view.rows))]_recVars
  BY PaneStep
<1>3. QED
  BY <1>1, <1>2, PaneStart, PTL DEF RecordsSpec, ActsOnWhatIsShown

(***************************************************************************)
(* Records: what is read.  Turning the pages, an export and a curve read    *)
(* in loops, so their lemmas go from one page to the next: induction on the *)
(* pages, stated of a set of numbers.                                       *)
(***************************************************************************)
\* Induction on the natural numbers, of a set: what the provers can instantiate.
LEMMA SetInduction ==
    ASSUME NEW S \in SUBSET Nat, 0 \in S, \A n \in S : n + 1 \in S PROVE S = Nat
<1>1. SUFFICES ASSUME Nat \ S # {} PROVE FALSE
  OBVIOUS
<1>2. PICK x \in Nat \ S : \A y \in Nat \ S : x <= y
  BY <1>1, Least
<1>3. x # 0 /\ x - 1 \in Nat
  BY <1>2
<1>4. x - 1 \in S
  BY <1>2, <1>3
<1>5. (x - 1) + 1 \in S /\ (x - 1) + 1 = x
  BY <1>2, <1>3, <1>4
<1>6. QED
  BY <1>2, <1>5

\* A function on the natural numbers may be defined by its first value and each next
\* one from the one before.
Stepwise(h, n, a, step) ==
    h[0] = a /\ \A k \in 0..n : k > 0 => h[k] = step[<<h[k - 1], k>>]

LEMMA StepsAgree ==
    ASSUME NEW a, NEW step, NEW n \in Nat, NEW m \in Nat, n <= m,
           NEW g, NEW h, Stepwise(g, n, a, step), Stepwise(h, m, a, step)
    PROVE  \A k \in 0..n : g[k] = h[k]
<1> DEFINE Same == {k \in Nat : k <= n => g[k] = h[k]}
<1>1. 0 \in Same
  BY DEF Stepwise
<1>2. ASSUME NEW k \in Same PROVE k + 1 \in Same
  <2>1. SUFFICES ASSUME k + 1 <= n PROVE g[k + 1] = h[k + 1]
    BY <1>2
  <2>2. g[k] = h[k] /\ k + 1 \in 0..n /\ k + 1 \in 0..m /\ (k + 1) - 1 = k /\ k + 1 > 0
    BY <1>2, <2>1
  <2>3. g[k + 1] = step[<<g[k], k + 1>>] /\ h[k + 1] = step[<<h[k], k + 1>>]
    BY <2>2, Zenon DEF Stepwise
  <2>4. QED
    BY <2>2, <2>3
<1>3. Same = Nat
  <2> HIDE DEF Same
  <2>1. Same \in SUBSET Nat
    BY DEF Same
  <2>2. QED
    BY <1>1, <1>2, <2>1, SetInduction
<1>4. QED
  BY <1>3

Iterates(g, a, step) == g[0] = a /\ \A k \in Nat : k > 0 => g[k] = step[<<g[k - 1], k>>]

LEMMA Iterated ==
    ASSUME NEW V, NEW a \in V, NEW step, \A x \in V, n \in Nat : step[<<x, n>>] \in V
    PROVE  \E g \in [Nat -> V] : Iterates(g, a, step)
<1> DEFINE Some == {n \in Nat : \E h \in [0..n -> V] : Stepwise(h, n, a, step)}
<1>1. 0 \in Some
  <2> DEFINE h == [k \in 0..0 |-> a]
  <2>1. h \in [0..0 -> V] /\ h[0] = a
    OBVIOUS
  <2>2. Stepwise(h, 0, a, step)
    BY <2>1 DEF Stepwise
  <2>3. QED
    BY <2>1, <2>2
<1>2. ASSUME NEW n \in Some PROVE n + 1 \in Some
  <2>1. PICK g \in [0..n -> V] : Stepwise(g, n, a, step)
    OBVIOUS
  <2> DEFINE h == [k \in 0..(n + 1) |-> IF k = n + 1 THEN step[<<g[n], n + 1>>] ELSE g[k]]
  <2>2. n \in Nat /\ g[n] \in V /\ n + 1 \in Nat
    OBVIOUS
  <2>3. step[<<g[n], n + 1>>] \in V
    BY <2>2
  <2>4. h \in [0..(n + 1) -> V]
    BY <2>2, <2>3
  <2>5. h[0] = a
    BY <2>1, <2>2 DEF Stepwise
  <2>6. ASSUME NEW k \in 0..(n + 1), k > 0 PROVE h[k] = step[<<h[k - 1], k>>]
    <3>1. k - 1 \in 0..n /\ k - 1 # n + 1 /\ h[k - 1] = g[k - 1]
      BY <2>2, <2>6
    <3>2. CASE k = n + 1
      <4>1. h[k] = step[<<g[n], n + 1>>] /\ k - 1 = n
        BY <3>2, <2>2
      <4>2. QED
        BY <3>1, <3>2, <4>1
    <3>3. CASE k # n + 1
      <4>1. k \in 0..n /\ h[k] = g[k]
        BY <3>3, <2>2
      <4>2. g[k] = step[<<g[k - 1], k>>]
        BY <4>1, <2>1, <2>6 DEF Stepwise
      <4>3. QED
        BY <3>1, <4>1, <4>2
    <3>4. QED
      BY <3>2, <3>3
  <2>7. Stepwise(h, n + 1, a, step)
    BY <2>5, <2>6 DEF Stepwise
  <2>8. QED
    BY <2>2, <2>4, <2>7
<1>3. Some = Nat
  <2> HIDE DEF Some
  <2>1. Some \in SUBSET Nat
    BY DEF Some
  <2>2. QED
    BY <1>1, <1>2, <2>1, SetInduction
<1> DEFINE Of(n) == CHOOSE h \in [0..n -> V] : Stepwise(h, n, a, step)
           g == [n \in Nat |-> Of(n)[n]]
<1>4. ASSUME NEW n \in Nat PROVE Of(n) \in [0..n -> V] /\ Stepwise(Of(n), n, a, step)
  <2>1. \E h \in [0..n -> V] : Stepwise(h, n, a, step)
    BY <1>3
  <2>2. QED
    BY <2>1
<1> HIDE DEF Of
<1>5. g \in [Nat -> V]
  BY <1>4
<1>6. g[0] = a
  BY <1>4 DEF Stepwise
<1>7. ASSUME NEW k \in Nat, k > 0 PROVE g[k] = step[<<g[k - 1], k>>]
  <2>1. k - 1 \in Nat /\ k - 1 <= k /\ k \in 0..k /\ k - 1 \in 0..(k - 1)
    BY <1>7
  <2>2. Of(k)[k] = step[<<Of(k)[k - 1], k>>]
    BY <1>4, <1>7, <2>1 DEF Stepwise
  <2>3. Of(k - 1)[k - 1] = Of(k)[k - 1]
    BY <1>4, <2>1, StepsAgree
  <2>4. QED
    BY <2>1, <2>2, <2>3
<1>8. QED
  BY <1>5, <1>6, <1>7 DEF Iterates

-----------------------------------------------------------------------------
\* R puts the members of S in one order.
Orders(R, S) ==
    /\ \A i \in S : <<i, i>> \notin R
    /\ \A i, j \in S : i # j => <<i, j>> \in R \/ <<j, i>> \in R
    /\ \A i, j, k \in S : <<i, j>> \in R /\ <<j, k>> \in R => <<i, k>> \in R

\* d lists the members of S, each once and in the order R.
ListsInOrder(d, S, R) ==
    /\ d \in [1..Cardinality(S) -> S]
    /\ \A m, n \in 1..Cardinality(S) : m < n => <<d[m], d[n]>> \in R
    /\ \A i \in S : \E n \in 1..Cardinality(S) : d[n] = i

LEMMA OrderedLists ==
    ASSUME NEW S, IsFiniteSet(S), NEW R, Orders(R, S)
    PROVE  /\ ListsInOrder(Ordered(S, R), S, R)
           /\ \A n \in 1..Cardinality(S) : Cardinality({j \in S : <<j, Ordered(S, R)[n]>> \in R}) = n - 1
<1> DEFINE Before(i) == {j \in S : <<j, i>> \in R}
           N == Cardinality(S)
           rank == [i \in S |-> Cardinality(Before(i))]
           d == Ordered(S, R)
<1>1. N \in Nat
  BY FS_CardinalityType
<1>2. ASSUME NEW i \in S PROVE IsFiniteSet(Before(i)) /\ Cardinality(Before(i)) \in 0..(N - 1)
  <2>1. Before(i) \in SUBSET (S \ {i})
    BY DEF Orders
  <2>2. IsFiniteSet(S \ {i}) /\ Cardinality(S \ {i}) = N - 1
    BY FS_RemoveElement
  <2> HIDE DEF Before
  <2>3. IsFiniteSet(Before(i)) /\ Cardinality(Before(i)) <= N - 1
    BY <2>1, <2>2, FS_Subset
  <2>4. QED
    BY <1>1, <2>3, FS_CardinalityType
<1>3. ASSUME NEW i \in S, NEW j \in S, <<i, j>> \in R
      PROVE  Cardinality(Before(i)) < Cardinality(Before(j))
  <2>1. i \notin Before(i) /\ i \in Before(j) /\ Before(i) \subseteq Before(j)
    BY <1>3 DEF Orders
  <2> HIDE DEF Before
  <2>2. Before(i) \in SUBSET Before(j) /\ Before(i) # Before(j)
    BY <2>1
  <2>3. IsFiniteSet(Before(j)) /\ Cardinality(Before(i)) \in Nat /\ Cardinality(Before(j)) \in Nat
    BY <1>2
  <2>4. Cardinality(Before(i)) <= Cardinality(Before(j)) /\ Cardinality(Before(i)) # Cardinality(Before(j))
    BY <2>2, <2>3, FS_Subset
  <2>5. QED
    BY <2>3, <2>4
<1> HIDE DEF Before
<1>4. rank \in [S -> 0..(N - 1)]
  <2>1. \A i \in S : rank[i] \in 0..(N - 1)
    BY <1>2
  <2> HIDE DEF rank
  <2>2. DOMAIN rank = S /\ rank = [i \in S |-> rank[i]]
    BY Zenon DEF rank
  <2>3. QED
    BY <2>1, <2>2, Zenon
<1>5. ASSUME NEW i \in S, NEW j \in S, rank[i] = rank[j] PROVE i = j
  <2>1. ~ (<<i, j>> \in R) /\ ~ (<<j, i>> \in R)
    BY <1>2, <1>3, <1>5
  <2>2. QED
    BY <2>1 DEF Orders
<1>6. rank \in Injection(S, 0..(N - 1))
  BY <1>4, <1>5 DEF Injection, IsInjective
<1>7. IsFiniteSet(0..(N - 1)) /\ Cardinality(0..(N - 1)) = N
  <2> HIDE DEF N
  <2>1. N \in Nat /\ 0 \in Int /\ N - 1 \in Int
    BY <1>1
  <2>2. /\ IsFiniteSet(0..(N - 1))
        /\ Cardinality(0..(N - 1)) = IF 0 > N - 1 THEN 0 ELSE (N - 1) - 0 + 1
    BY <2>1, FS_Interval, Zenon
  <2>3. QED
    BY <2>1, <2>2
<1> HIDE DEF rank
<1>8. rank \in Surjection(S, 0..(N - 1))
  BY <1>6, <1>7, FS_Injection
<1>9. ASSUME NEW n \in 1..N PROVE d[n] \in S /\ rank[d[n]] = n - 1
  <2>1. n - 1 \in 0..(N - 1)
    BY <1>1
  <2>2. \E i \in S : rank[i] = n - 1
    BY <1>8, <2>1 DEF Surjection
  <2>3. \E i \in S : Cardinality(Before(i)) = n - 1
    BY <2>2 DEF rank
  <2>4. d[n] = CHOOSE i \in S : Cardinality(Before(i)) = n - 1
    BY Zenon DEF Ordered, Before
  <2> DEFINE i == d[n]
  <2> HIDE DEF d
  <2>5. i \in S /\ Cardinality(Before(i)) = n - 1
    BY <2>3, <2>4
  <2>6. QED
    BY <2>5 DEF rank
<1>10. d \in [1..N -> S]
  <2> DEFINE nth(n) == CHOOSE i \in S : Cardinality(Before(i)) = n - 1
  <2>1. d = [n \in 1..N |-> nth(n)]
    BY Zenon DEF Ordered, Before
  <2> HIDE DEF d, nth, N
  <2>2. \A n \in 1..N : nth(n) \in S
    BY <1>9, <2>1
  <2>3. QED
    BY <2>1, <2>2
<1> HIDE DEF d
<1>11. ASSUME NEW m \in 1..N, NEW n \in 1..N, m < n PROVE <<d[m], d[n]>> \in R
  <2>1. rank[d[m]] < rank[d[n]] /\ d[m] \in S /\ d[n] \in S
    BY <1>1, <1>9, <1>11
  <2>2. d[m] # d[n] /\ ~ (<<d[n], d[m]>> \in R)
    BY <2>1, <1>1, <1>2, <1>3, <1>9 DEF rank
  <2>3. QED
    BY <2>1, <2>2 DEF Orders
<1>12. ASSUME NEW i \in S PROVE \E n \in 1..N : d[n] = i
  <2>1. rank[i] \in 0..(N - 1)
    BY <1>4
  <2>2. rank[i] + 1 \in 1..N /\ (rank[i] + 1) - 1 = rank[i]
    BY <1>1, <2>1
  <2>3. d[rank[i] + 1] \in S /\ rank[d[rank[i] + 1]] = rank[i]
    BY <1>9, <2>2
  <2>4. QED
    BY <1>5, <2>2, <2>3
<1>13. \A n \in 1..N : Cardinality(Before(d[n])) = n - 1
  BY <1>9 DEF rank
<1>14. QED
  BY <1>10, <1>11, <1>12, <1>13, Zenon DEF ListsInOrder, d, Before

LEMMA SameFunction ==
    ASSUME NEW D, NEW T, NEW f \in [D -> T], NEW g \in [D -> T], \A x \in D : f[x] = g[x]
    PROVE  f = g
OBVIOUS

\* There is one list.
LEMMA ListsAreOne ==
    ASSUME NEW S, IsFiniteSet(S), NEW R, Orders(R, S), NEW d, NEW e, ListsInOrder(d, S, R), ListsInOrder(e, S, R)
    PROVE  d = e
<1> DEFINE N == Cardinality(S)
           Apart == {n \in 1..N : d[n] # e[n]}
<1>1. N \in Nat
  BY FS_CardinalityType
<1>2. Apart = {}
  <2>1. SUFFICES ASSUME Apart # {} PROVE FALSE
    OBVIOUS
  <2>2. Apart \in SUBSET Nat
    BY <1>1
  <2>3. PICK n \in Apart : \A m \in Apart : n <= m
    BY <2>1, <2>2, Least
  <2>4. n \in 1..N /\ d[n] # e[n] /\ d[n] \in S /\ e[n] \in S
    BY <2>3 DEF ListsInOrder
  <2>5. \A m \in 1..N : m < n => d[m] = e[m]
    BY <2>3, <1>1
  <2>6. PICK p \in 1..N : e[p] = d[n]
    BY <2>4 DEF ListsInOrder
  <2>7. PICK q \in 1..N : d[q] = e[n]
    BY <2>4 DEF ListsInOrder
  <2>8. ASSUME NEW m \in 1..N, m < n PROVE d[m] # d[n] /\ e[m] # e[n]
    <3>1. <<d[m], d[n]>> \in R /\ <<e[m], e[n]>> \in R /\ d[m] \in S /\ e[m] \in S
      BY <2>4, <2>8 DEF ListsInOrder
    <3>2. QED
      BY <2>4, <3>1 DEF Orders
  <2>9. p > n /\ q > n
    <3>1. ~ (p < n) /\ ~ (q < n)
      BY <2>5, <2>6, <2>7, <2>8
    <3>2. p # n /\ q # n
      BY <2>4, <2>6, <2>7
    <3>3. QED
      BY <1>1, <2>4, <3>1, <3>2
  <2>10. <<e[n], e[p]>> \in R /\ <<d[n], d[q]>> \in R
    BY <2>4, <2>9 DEF ListsInOrder
  <2>11. <<e[n], d[n]>> \in R /\ <<d[n], e[n]>> \in R
    BY <2>6, <2>7, <2>10
  <2>12. QED
    BY <2>4, <2>11 DEF Orders
<1>3. d \in [1..N -> S] /\ e \in [1..N -> S]
  BY DEF ListsInOrder
<1>4. \A n \in 1..N : d[n] = e[n]
  BY <1>2
<1>5. QED
  <2> HIDE DEF N, Apart
  <2> DEFINE D == 1..N
  <2>1. d \in [D -> S] /\ e \in [D -> S] /\ \A n \in D : d[n] = e[n]
    BY <1>3, <1>4
  <2> HIDE DEF D
  <2>2. QED
    BY <2>1, SameFunction

-----------------------------------------------------------------------------
\* What the first pages of a sequence hold.
FirstOf(q, m) == SubSeq(q, 1, Min({m, Len(q)}))

LEMMA LessOfTwo ==
    ASSUME NEW a \in Int, NEW b \in Int PROVE Min({a, b}) = IF a <= b THEN a ELSE b
<1>1. \A x \in {a, b} : (\A y \in {a, b} : x <= y) => x = IF a <= b THEN a ELSE b
  OBVIOUS
<1>2. \E x \in {a, b} : \A y \in {a, b} : x <= y
  OBVIOUS
<1>3. Min({a, b}) \in {a, b} /\ \A y \in {a, b} : Min({a, b}) <= y
  BY <1>2 DEF Min
<1>4. QED
  BY <1>1, <1>3

LEMMA Fronts ==
    ASSUME NEW T, NEW q \in Seq(T), NEW m \in Nat
    PROVE  /\ FirstOf(q, m) = SubSeq(q, 1, IF m <= Len(q) THEN m ELSE Len(q))
           /\ FirstOf(q, m) \in Seq(T)
           /\ Len(FirstOf(q, m)) = IF m <= Len(q) THEN m ELSE Len(q)
           /\ \A i \in 1..Len(FirstOf(q, m)) : FirstOf(q, m)[i] = q[i]
           /\ m >= Len(q) => FirstOf(q, m) = q
<1> DEFINE k == IF m <= Len(q) THEN m ELSE Len(q)
<1>1. Len(q) \in Nat /\ k \in Nat /\ k <= Len(q) /\ (m >= Len(q) => k = Len(q))
  OBVIOUS
<1>2. FirstOf(q, m) = SubSeq(q, 1, k)
  BY <1>1, LessOfTwo DEF FirstOf
<1>3. \A i \in 1..Len(q) : q[i] \in T
  OBVIOUS
<1>4. SubSeq(q, 1, Len(q)) = q
  BY SubSeqFull
<1> HIDE DEF k
<1>5. \A i \in 1..k : q[i] \in T
  BY <1>1, <1>3
<1>6. /\ SubSeq(q, 1, k) \in Seq(T)
      /\ Len(SubSeq(q, 1, k)) = IF 1 <= k THEN k - 1 + 1 ELSE 0
      /\ \A i \in 1..(k - 1 + 1) : SubSeq(q, 1, k)[i] = q[1 + i - 1]
  BY <1>1, <1>5, SubSeqProperties
<1>7. Len(SubSeq(q, 1, k)) = k /\ \A i \in 1..k : SubSeq(q, 1, k)[i] = q[i]
  BY <1>1, <1>6
<1>8. m >= Len(q) => FirstOf(q, m) = q
  BY <1>1, <1>2, <1>4
<1>9. QED
  BY <1>2, <1>6, <1>7, <1>8 DEF k

\* A page continues what the pages before it hold.
Continues(T, q, n, size) ==
    /\ n * size \in Nat /\ (n + 1) * size \in Nat /\ (n + 1) * size = n * size + size
    /\ PageOf(q, n + 1, size) \in Seq(T)
    /\ Len(PageOf(q, n + 1, size)) =
                  Len(FirstOf(q, (n + 1) * size)) - Len(FirstOf(q, n * size))
    /\ FirstOf(q, n * size) \o PageOf(q, n + 1, size) = FirstOf(q, (n + 1) * size)

LEMMA PageContinues ==
    ASSUME NEW T, NEW q \in Seq(T), NEW n \in Nat, NEW size \in Nat PROVE Continues(T, q, n, size)
<1> DEFINE a == n * size
           b == (n + 1) * size
<1>1. a \in Nat /\ b = a + size /\ ((n + 1) - 1) * size = a
  <2>1. a \in Nat
    OBVIOUS
  <2>2. (n + 1) - 1 = n
    OBVIOUS
  <2>3. b = a + size
    BY SMTT(30)
  <2>4. QED
    BY <2>1, <2>2, <2>3
<1>2. PageOf(q, n + 1, size) = SubSeq(q, a + 1, Min({b, Len(q)}))
  BY <1>1 DEF PageOf
<1> HIDE DEF a, b
<1>3. b \in Nat /\ Len(q) \in Nat
  BY <1>1
<1> DEFINE k == IF b <= Len(q) THEN b ELSE Len(q)
           piece == SubSeq(q, a + 1, k)
<1>4. PageOf(q, n + 1, size) = piece
  <2>1. b \in Int /\ Len(q) \in Int
    BY <1>3
  <2>2. Min({b, Len(q)}) = k
    BY <2>1, LessOfTwo, Zenon
  <2>3. QED
    BY <1>2, <2>2, Zenon
<1>5. k \in Nat /\ k <= Len(q) /\ (a <= Len(q) => a <= k) /\ (a > Len(q) => k = Len(q))
  BY <1>1, <1>3
<1>6. FirstOf(q, a) \in Seq(T) /\ FirstOf(q, b) \in Seq(T) /\ FirstOf(q, b) = SubSeq(q, 1, k)
  BY <1>1, <1>3, Fronts
<1> HIDE DEF k
<1>7. piece \in Seq(T)
  <2>1. \A i \in (a + 1)..k : q[i] \in T
    BY <1>1, <1>5
  <2>2. a + 1 \in Int /\ k \in Int
    BY <1>1, <1>5
  <2>3. QED
    BY <2>1, <2>2, SubSeqProperties
<1>8. FirstOf(q, a) \o piece = FirstOf(q, b)
  <2>1. CASE a <= Len(q)
    <3>1. FirstOf(q, a) = SubSeq(q, 1, a)
      BY <1>1, <2>1, Fronts
    <3>2. SubSeq(q, 1, a) \o SubSeq(q, a + 1, k) = SubSeq(q, 1, k)
      <4>1. \A i \in 1..k : q[i] \in T
        BY <1>5
      <4>2. 1 \in Int /\ a \in (1 - 1)..k /\ k \in Int
        BY <1>1, <1>5, <2>1
      <4>3. QED
        BY <4>1, <4>2, <1>5, ConcatAdjacentSubSeq
    <3>3. QED
      BY <3>1, <3>2, <1>6
  <2>2. CASE a > Len(q)
    <3>1. piece = << >>
      BY <1>1, <1>3, <1>5, <2>2, SubSeqEmpty
    <3>2. FirstOf(q, a) = q
      BY <1>1, <1>3, <2>2, Fronts
    <3>3. FirstOf(q, b) = q
      BY <1>5, <1>6, <2>2, SubSeqFull
    <3>4. q \o << >> = q
      BY ConcatEmptySeq
    <3>5. QED
      BY <3>1, <3>2, <3>3, <3>4
  <2>3. a <= Len(q) \/ a > Len(q)
    BY <1>1, <1>3
  <2>4. QED
    BY <2>1, <2>2, <2>3, Zenon
<1> HIDE DEF piece
<1>9. Len(piece) = Len(FirstOf(q, b)) - Len(FirstOf(q, a))
  <2>1. Len(FirstOf(q, a) \o piece) = Len(FirstOf(q, a)) + Len(piece)
    BY <1>6, <1>7, ConcatProperties
  <2>2. Len(FirstOf(q, a)) \in Nat /\ Len(piece) \in Nat
    BY <1>6, <1>7
  <2>3. QED
    BY <1>8, <2>1, <2>2
<1>10. (n + 1) * size = n * size + size /\ n * size \in Nat /\ (n + 1) * size \in Nat
  BY <1>1, <1>3 DEF a, b
<1>11. QED
  BY <1>10, <1>4, <1>7, <1>8, <1>9 DEF a, b, Continues

LEMMA FirstPage == ASSUME NEW q, NEW m \in Nat PROVE PageOf(q, 1, m) = FirstOf(q, m)
<1>1. (1 - 1) * m + 1 = 1 /\ 1 * m = m
  OBVIOUS
<1>2. QED
  BY <1>1 DEF PageOf, FirstOf

-----------------------------------------------------------------------------
\* The loops that read pages.
Loops(T) == [rows : Seq(T), more : BOOLEAN]

\* The limits of the loops are positive.
LEMMA LimitsPositive ==
    /\ Batch \in Nat /\ Batch > 0 /\ Limit \in Nat /\ Limit > 0
    /\ HistoryMax \in Nat /\ HistoryMax > 0
<1>1. {Batch, Limit, HistoryMax, CurveSize} \subseteq Nat \ {0}
  BY RecordsAssumption, Zenon
<1>2. /\ Batch \in Nat \ {0} /\ Limit \in Nat \ {0} /\ HistoryMax \in Nat \ {0}
  BY <1>1, Zenon
<1>3. QED
  BY <1>2

\* A turn of the export.
LEMMA ExportTurns ==
    ASSUME NEW T, NEW q \in Seq(T), NEW loop \in Loops(T), NEW n \in Nat, n > 0
    PROVE  ExportTurn(q, loop, n) \in Loops(T)
<1> DEFINE wanted == Min({Batch, Limit - Len(loop.rows)})
           batch == PageOf(q, n, wanted)
<1>1. CASE loop.more /\ Len(loop.rows) < Limit
  <2>1. Batch \in Nat /\ Limit \in Nat /\ loop.rows \in Seq(T)
    BY LimitsPositive DEF Loops
  <2>2. wanted \in Nat
    <3> DEFINE left == Limit - Len(loop.rows)
    <3>1. left \in Nat
      BY <2>1, <1>1
    <3> HIDE DEF left
    <3>2. Batch \in Int /\ left \in Int
      BY <2>1, <3>1
    <3>2a. Min({Batch, left}) = IF Batch <= left THEN Batch ELSE left
      BY <3>2, LessOfTwo, Zenon
    <3>2b. Min({Batch, left}) \in Nat
      BY <2>1, <3>1, <3>2a
    <3>3. QED
      BY <3>2b DEF left
  <2>3. n - 1 \in Nat /\ (n - 1) + 1 = n
    OBVIOUS
  <2> HIDE DEF wanted
  <2>4. batch \in Seq(T)
    BY <2>2, <2>3, PageContinues DEF Continues
  <2> HIDE DEF batch
  <2>5. loop.rows \o batch \in Seq(T)
    BY <2>1, <2>4
  <2>6. ExportTurn(q, loop, n) = Loop(loop.rows \o batch, Len(batch) >= wanted)
    BY <2>1, <1>1 DEF ExportTurn, wanted, batch
  <2>7. QED
    BY <2>5, <2>6 DEF Loop, Loops
<1>2. CASE ~ (loop.more /\ Len(loop.rows) < Limit)
  <2>1. ExportTurn(q, loop, n) = loop
    BY <1>2, RecordsAssumption DEF ExportTurn, Loops
  <2>2. QED
    BY <2>1
<1>3. QED
  BY <1>1, <1>2

LEMMA ExportSteps ==
    ASSUME NEW T, NEW q \in Seq(T)
    PROVE  /\ Exported(q) \in [Nat -> Loops(T)]
           /\ Exported(q)[0] = Loop(<<>>, TRUE)
           /\ \A n \in Nat : Exported(q)[n + 1] = ExportTurn(q, Exported(q)[n], n + 1)
<1> DEFINE a == Loop(<<>>, TRUE)
           next(x, n) == IF n = 0 THEN x ELSE ExportTurn(q, x, n)
           step == [c \in Loops(T) \X Nat |-> next(c[1], c[2])]
           Is(g) == g = [piece \in Nat |-> IF piece = 0 THEN a ELSE ExportTurn(q, g[piece - 1], piece)]
<1>1. a \in Loops(T)
  BY DEF Loop, Loops
<1>2. \A x \in Loops(T), n \in Nat : next(x, n) \in Loops(T)
  BY ExportTurns
<1> HIDE DEF next
<1>3. \A x \in Loops(T), n \in Nat : step[<<x, n>>] \in Loops(T)
  BY <1>2
<1>4. \A x \in Loops(T), n \in Nat : step[<<x, n>>] = next(x, n)
  OBVIOUS
<1> HIDE DEF a, step
<1>5. PICK g \in [Nat -> Loops(T)] : Iterates(g, a, step)
  <2> DEFINE V == Loops(T)
  <2>1. a \in V /\ \A x \in V, n \in Nat : step[<<x, n>>] \in V
    BY <1>1, <1>3
  <2> HIDE DEF V
  <2>2. \E g \in [Nat -> V] : Iterates(g, a, step)
    BY <2>1, Iterated
  <2>3. QED
    BY <2>2 DEF V
<1>6. Is(g)
  <2>1. ASSUME NEW k \in Nat PROVE g[k] = IF k = 0 THEN a ELSE ExportTurn(q, g[k - 1], k)
    <3>1. CASE k = 0
      BY <3>1, <1>5 DEF Iterates
    <3>2. CASE k # 0
      <4>1. k > 0 /\ k - 1 \in Nat
        BY <3>2
      <4>2. g[k] = next(g[k - 1], k)
        BY <4>1, <1>4, <1>5 DEF Iterates
      <4>3. QED
        BY <3>2, <4>2 DEF next
    <3>3. QED
      BY <3>1, <3>2
  <2>2. g = [k \in Nat |-> g[k]]
    BY <1>5
  <2>3. QED
    BY <2>1, <2>2
<1>7. Exported(q) = CHOOSE h : Is(h)
  BY Zenon DEF Exported, a
<1> HIDE DEF Is
<1>8. Is(Exported(q))
  BY <1>6, <1>7
<1> DEFINE E == Exported(q)
<1> HIDE DEF E
<1>9. E = [piece \in Nat |-> IF piece = 0 THEN a ELSE ExportTurn(q, E[piece - 1], piece)]
  BY <1>8 DEF Is, E
<1>10. E[0] = a
  BY <1>9
<1>11. \A n \in Nat : E[n + 1] = ExportTurn(q, E[n], n + 1)
  <2>1. ASSUME NEW n \in Nat PROVE E[n + 1] = ExportTurn(q, E[n], n + 1)
    <3>1. n + 1 \in Nat /\ n + 1 # 0 /\ (n + 1) - 1 = n
      OBVIOUS
    <3>2. QED
      BY <1>9, <3>1
  <2>2. QED
    BY <2>1
<1>12. E \in [Nat -> Loops(T)]
  <2> DEFINE Right == {n \in Nat : E[n] \in Loops(T)}
  <2>1. 0 \in Right
    BY <1>1, <1>10
  <2>2. ASSUME NEW n \in Right PROVE n + 1 \in Right
    <3>1. n \in Nat /\ n + 1 \in Nat /\ n + 1 > 0 /\ E[n] \in Loops(T)
      OBVIOUS
    <3>2. ExportTurn(q, E[n], n + 1) \in Loops(T)
      BY <3>1, ExportTurns
    <3>3. QED
      BY <1>11, <3>1, <3>2
  <2>3. Right \in SUBSET Nat
    OBVIOUS
  <2> HIDE DEF Right
  <2>4. Right = Nat
    BY <2>1, <2>2, <2>3, SetInduction
  <2>5. \A n \in Nat : E[n] \in Loops(T)
    BY <2>4 DEF Right
  <2>6. E = [n \in Nat |-> E[n]]
    BY <1>9
  <2>7. QED
    BY <2>5, <2>6
<1>13. QED
  BY <1>10, <1>11, <1>12 DEF E, a

\* Whole batches fit in the limit.
LEMMA WholeBatches ==
    ASSUME NEW n \in Nat, n * Batch < Limit PROVE (n + 1) * Batch <= Limit
<1>1. Batch \in Nat /\ Batch > 0 /\ Limit \in Nat
  BY LimitsPositive
<1>2. PICK K \in 1..Limit : Limit = K * Batch
  BY RecordsAssumption
<1>3. K \in Nat
  BY <1>1
<1>4. n < K
  <2>1. SUFFICES ASSUME K <= n PROVE FALSE
    BY <1>3
  <2>2. K * Batch <= n * Batch
    BY <1>1, <1>3, <2>1
  <2>3. K * Batch \in Nat /\ n * Batch \in Nat
    BY <1>1, <1>3
  <2>4. Limit <= n * Batch
    BY <1>2, <2>2, Zenon
  <2>5. QED
    BY <1>1, <2>3, <2>4
<1>5. (n + 1) * Batch <= K * Batch
  BY <1>1, <1>3, <1>4
<1>6. QED
  BY <1>2, <1>5

\* What the batches read so far hold, and that none is left after a short one.
ExportSoFar(q, loop, n) ==
    /\ loop.rows = FirstOf(q, IF n * Batch < Limit THEN n * Batch ELSE Limit)
    /\ ~ loop.more => Len(q) < n * Batch
    /\ loop.more => n * Batch <= Len(q) \/ Limit <= Len(q)

LEMMA ExportTurnReads ==
    ASSUME NEW T, NEW q \in Seq(T), NEW loop \in Loops(T), NEW n \in Nat,
           ExportSoFar(q, loop, n)
    PROVE  ExportSoFar(q, ExportTurn(q, loop, n + 1), n + 1)
<1>0. Batch \in Nat
  BY LimitsPositive
<1>9. /\ n * Batch \in Nat /\ (n + 1) * Batch \in Nat /\ (n + 1) * Batch = n * Batch + Batch
      /\ PageOf(q, n + 1, Batch) \in Seq(T)
      /\ Len(PageOf(q, n + 1, Batch)) =
             Len(FirstOf(q, (n + 1) * Batch)) - Len(FirstOf(q, n * Batch))
      /\ FirstOf(q, n * Batch) \o PageOf(q, n + 1, Batch) = FirstOf(q, (n + 1) * Batch)
  <2>1. Continues(T, q, n, Batch)
    BY <1>0, PageContinues
  <2>2. QED
    BY <2>1, Zenon DEF Continues
<1> DEFINE a == n * Batch
           b == (n + 1) * Batch
           upto(m) == IF m < Limit THEN m ELSE Limit
           left == Limit - Len(loop.rows)
           wanted == Min({Batch, left})
           batch == PageOf(q, n + 1, wanted)
<1>1. Batch \in Nat /\ Batch > 0 /\ Limit \in Nat /\ Len(q) \in Nat /\ loop.more \in BOOLEAN
  BY LimitsPositive DEF Loops
<1>2. /\ a \in Nat /\ b \in Nat /\ b = a + Batch
      /\ Len(PageOf(q, n + 1, Batch)) = Len(FirstOf(q, b)) - Len(FirstOf(q, a))
      /\ FirstOf(q, a) \o PageOf(q, n + 1, Batch) = FirstOf(q, b)
  BY <1>9, Zenon
<1>3. a < Limit => b <= Limit
  BY <1>1, WholeBatches
<1> HIDE DEF a, b
<1>4. /\ loop.rows = FirstOf(q, upto(a)) /\ (~ loop.more => Len(q) < a)
      /\ loop.more => a <= Len(q) \/ Limit <= Len(q)
  BY DEF ExportSoFar, a
<1>5. upto(a) \in Nat /\ Len(loop.rows) = IF upto(a) <= Len(q) THEN upto(a) ELSE Len(q)
  BY <1>1, <1>2, <1>4, Fronts
<1>6. CASE loop.more /\ Len(loop.rows) < Limit
  <2>1. ExportTurn(q, loop, n + 1) = Loop(loop.rows \o batch, Len(batch) >= wanted)
    BY <1>1, <1>6 DEF ExportTurn
  <2>0. a < Limit /\ a <= Len(q)
    <3>1. CASE a < Limit
      BY <1>1, <1>2, <1>4, <1>5, <1>6, <3>1
    <3>2. CASE Limit <= a
      BY <1>1, <1>2, <1>4, <1>5, <1>6, <3>2
    <3>3. QED
      BY <1>1, <1>2, <3>1, <3>2
  <2>2. a < Limit /\ a <= Len(q) /\ upto(a) = a /\ Len(loop.rows) = a
    BY <1>1, <1>2, <1>5, <2>0
  <2>3. left \in Int /\ Batch \in Int /\ Batch <= left
    BY <1>1, <1>2, <1>3, <2>2
  <2> HIDE DEF left
  <2>4. wanted = Batch
    BY <2>3, LessOfTwo, Zenon
  <2>5. batch = PageOf(q, n + 1, Batch)
    BY <2>4
  <2> HIDE DEF wanted, batch
  <2>6. Len(FirstOf(q, b)) = IF b <= Len(q) THEN b ELSE Len(q)
    BY <1>2, Fronts
  <2>7. ExportTurn(q, loop, n + 1) = [rows |-> FirstOf(q, b), more |-> Len(batch) >= Batch]
    BY <1>2, <1>4, <2>1, <2>2, <2>4, <2>5 DEF Loop
  <2>8. b <= Limit /\ (b < Limit \/ b = Limit)
    BY <1>1, <1>2, <1>3, <2>2
  <2>8a. upto(b) = b
    BY <1>1, <1>2, <2>8
  <2>9. Len(FirstOf(q, a)) = a
    BY <1>4, <2>2
  <2>10. (Len(batch) >= Batch => b <= Len(q)) /\ (~ (Len(batch) >= Batch) => Len(q) < b)
    <3>1. Len(batch) = Len(FirstOf(q, b)) - a
      BY <1>2, <2>5, <2>9
    <3> DEFINE l == Len(batch)
               m == Len(FirstOf(q, b))
    <3>2. l = m - a /\ ((m = b /\ b <= Len(q)) \/ (m = Len(q) /\ Len(q) < b))
      BY <1>1, <1>2, <2>6, <3>1
    <3> HIDE DEF l, m
    <3>3. (l >= Batch => b <= Len(q)) /\ (~ (l >= Batch) => Len(q) < b)
      <4>1. a \in Nat /\ b \in Nat /\ b = a + Batch /\ Batch \in Nat /\ Len(q) \in Nat
        BY <1>1, <1>2
      <4>2. CASE m = b /\ b <= Len(q)
        <5>1. l = Batch
          BY <3>2, <4>1, <4>2
        <5>2. QED
          BY <4>1, <4>2, <5>1
      <4>3. CASE m = Len(q) /\ Len(q) < b
        <5>1. l < Batch /\ l \in Int
          BY <3>2, <4>1, <4>3
        <5>2. QED
          BY <4>1, <4>3, <5>1
      <4>4. QED
        BY <3>2, <4>2, <4>3
    <3>4. QED
      BY <3>3 DEF l
  <2> DEFINE turned == ExportTurn(q, loop, n + 1)
             longer == Len(batch) >= Batch
  <2>11. turned.rows = FirstOf(q, b) /\ turned.more = longer
    BY <2>7
  <2> HIDE DEF turned
  <2>12. turned.rows = FirstOf(q, upto(b))
    BY <2>8a, <2>11
  <2>13. (~ turned.more => Len(q) < b) /\ (turned.more => b <= Len(q))
    BY <1>1, <1>2, <2>10, <2>11
  <2>14. ExportSoFar(q, turned, n + 1)
    BY <2>12, <2>13 DEF ExportSoFar, b
  <2>15. QED
    BY <2>14 DEF turned
<1>7. CASE ~ (loop.more /\ Len(loop.rows) < Limit)
  <2>1. ExportTurn(q, loop, n + 1) = loop
    BY <1>1, <1>5, <1>7 DEF ExportTurn
  <2>2. upto(b) \in Nat
    BY <1>1, <1>2
  <2>3. FirstOf(q, upto(b)) = loop.rows
    <3>1. CASE loop.more
      <4>1. Len(loop.rows) >= Limit
        BY <1>1, <1>5, <1>7, <3>1
      <4>2. upto(a) = Limit /\ upto(b) = Limit
        BY <1>1, <1>2, <1>5, <4>1
      <4>3. QED
        BY <1>4, <4>2
    <3>2. CASE ~ loop.more
      <4>1. CASE a < Limit
        <5>0. Len(q) < a /\ a < b /\ b <= Limit
          BY <1>1, <1>2, <1>3, <1>4, <3>2, <4>1
        <5>1. upto(a) >= Len(q) /\ upto(b) >= Len(q)
          BY <1>1, <1>2, <4>1, <5>0
        <5>2. QED
          BY <1>4, <1>5, <2>2, <5>1, Fronts
      <4>2. CASE ~ (a < Limit)
        BY <1>1, <1>2, <1>4, <4>2
      <4>3. QED
        BY <4>1, <4>2
    <3>3. QED
      BY <3>1, <3>2
  <2>4. ~ loop.more => Len(q) < b
    BY <1>1, <1>2, <1>4
  <2>5. loop.more => Limit <= Len(q)
    BY <1>1, <1>5, <1>7
  <2>6. QED
    BY <2>1, <2>3, <2>4, <2>5 DEF ExportSoFar, b
<1>8. QED
  BY <1>6, <1>7

\* An export holds the first rows, up to the limit.
LEMMA ExportedRows ==
    ASSUME NEW T, NEW q \in Seq(T)
    PROVE  Exported(q)[Limit].rows = FirstOf(q, Limit)
<1> DEFINE E == Exported(q)
           Right == {n \in Nat : ExportSoFar(q, E[n], n)}
<1>1. Batch \in Nat /\ Batch > 0 /\ Limit \in Nat /\ Limit > 0 /\ Len(q) \in Nat
  BY LimitsPositive
<1>2. /\ E \in [Nat -> Loops(T)] /\ E[0] = Loop(<<>>, TRUE)
      /\ \A n \in Nat : E[n + 1] = ExportTurn(q, E[n], n + 1)
  BY ExportSteps
<1> HIDE DEF E
<1>3. 0 \in Right
  <2>1. 0 * Batch = 0 /\ 0 < Limit
    BY <1>1
  <2>2. FirstOf(q, 0) \in Seq(T) /\ Len(FirstOf(q, 0)) = 0
    BY <1>1, Fronts
  <2>3. FirstOf(q, 0) = << >>
    BY <2>2
  <2>4. E[0].rows = << >> /\ E[0].more = TRUE
    BY <1>2 DEF Loop
  <2>5. ExportSoFar(q, E[0], 0)
    BY <1>1, <2>1, <2>3, <2>4 DEF ExportSoFar
  <2>6. QED
    BY <2>5
<1>4. ASSUME NEW n \in Right PROVE n + 1 \in Right
  <2>1. n \in Nat /\ n + 1 \in Nat /\ ExportSoFar(q, E[n], n) /\ E[n] \in Loops(T)
    BY <1>2
  <2>2. ExportSoFar(q, ExportTurn(q, E[n], n + 1), n + 1)
    BY <2>1, ExportTurnReads
  <2>3. QED
    BY <1>2, <2>1, <2>2
<1>5. Right \in SUBSET Nat
  OBVIOUS
<1> HIDE DEF Right
<1>6. Right = Nat
  BY <1>3, <1>4, <1>5, SetInduction
<1>7. ExportSoFar(q, E[Limit], Limit)
  BY <1>1, <1>6 DEF Right
<1>8. Limit * Batch >= Limit
  BY <1>1
<1>9. ~ (Limit * Batch < Limit)
  BY <1>1, <1>8
<1>10. QED
  BY <1>7, <1>9 DEF ExportSoFar, E

-----------------------------------------------------------------------------
\* A turn of the curve.
LEMMA CurveTurns ==
    ASSUME NEW T, NEW q \in Seq(T), NEW total \in Nat, NEW loop \in Loops(T),
           NEW n \in Nat, n > 0
    PROVE  CurveTurn(q, total, loop, n) \in Loops(T)
<1> DEFINE batch == PageOf(q, n, Batch)
<1>1. Batch \in Nat /\ n - 1 \in Nat /\ (n - 1) + 1 = n
  BY LimitsPositive
<1>2. Continues(T, q, n - 1, Batch)
  BY <1>1, PageContinues
<1>3. batch \in Seq(T)
  BY <1>1, <1>2 DEF Continues
<1> HIDE DEF batch
<1>4. loop.rows \o batch \in Seq(T)
  BY <1>3 DEF Loops
<1>5. \/ CurveTurn(q, total, loop, n) = loop
      \/ CurveTurn(q, total, loop, n) = Loop(loop.rows \o batch, n = 1 \/ batch # <<>>)
  BY Zenon DEF CurveTurn, batch
<1>6. [rows |-> loop.rows \o batch, more |-> (n = 1 \/ batch # <<>>)] \in Loops(T)
  BY <1>4 DEF Loops
<1>7. QED
  BY <1>5, <1>6 DEF Loop

CurveStepped(T, q, sofar, total) ==
    /\ CurvePages(q, sofar, total) \in [Nat -> Loops(T)]
    /\ CurvePages(q, sofar, total)[0] = Loop(sofar, TRUE)
    /\ \A n \in Nat :
          CurvePages(q, sofar, total)[n + 1] = CurveTurn(q, total, CurvePages(q, sofar, total)[n], n + 1)

LEMMA CurveSteps ==
    ASSUME NEW T, NEW q \in Seq(T), NEW sofar \in Seq(T), NEW total \in Nat
    PROVE  CurveStepped(T, q, sofar, total)
<1> DEFINE a == Loop(sofar, TRUE)
           next(x, n) == IF n = 0 THEN x ELSE CurveTurn(q, total, x, n)
           step == [c \in Loops(T) \X Nat |-> next(c[1], c[2])]
           Is(g) == g = [piece \in Nat |-> IF piece = 0 THEN a ELSE CurveTurn(q, total, g[piece - 1], piece)]
<1>1. a \in Loops(T)
  BY DEF Loop, Loops
<1>2. \A x \in Loops(T), n \in Nat : next(x, n) \in Loops(T)
  <2>1. ASSUME NEW x \in Loops(T), NEW n \in Nat, n # 0
        PROVE  CurveTurn(q, total, x, n) \in Loops(T)
    <3>1. n > 0
      BY <2>1
    <3>2. QED
      BY <3>1, CurveTurns
  <2>2. QED
    BY <2>1
<1> HIDE DEF next
<1>3. \A x \in Loops(T), n \in Nat : step[<<x, n>>] \in Loops(T)
  BY <1>2
<1>4. \A x \in Loops(T), n \in Nat : step[<<x, n>>] = next(x, n)
  OBVIOUS
<1> HIDE DEF a, step
<1>5. PICK g \in [Nat -> Loops(T)] : Iterates(g, a, step)
  <2> DEFINE V == Loops(T)
  <2>1. a \in V /\ \A x \in V, n \in Nat : step[<<x, n>>] \in V
    BY <1>1, <1>3
  <2> HIDE DEF V
  <2>2. \E g \in [Nat -> V] : Iterates(g, a, step)
    BY <2>1, Iterated
  <2>3. QED
    BY <2>2 DEF V
<1>6. Is(g)
  <2>1. ASSUME NEW k \in Nat PROVE g[k] = IF k = 0 THEN a ELSE CurveTurn(q, total, g[k - 1], k)
    <3>1. CASE k = 0
      BY <3>1, <1>5 DEF Iterates
    <3>2. CASE k # 0
      <4>1. k > 0 /\ k - 1 \in Nat
        BY <3>2
      <4>2. g[k] = next(g[k - 1], k)
        BY <4>1, <1>4, <1>5 DEF Iterates
      <4>3. QED
        BY <3>2, <4>2 DEF next
    <3>3. QED
      BY <3>1, <3>2
  <2>2. g = [k \in Nat |-> g[k]]
    BY <1>5
  <2>3. QED
    BY <2>1, <2>2
<1>7. CurvePages(q, sofar, total) = CHOOSE h : Is(h)
  BY Zenon DEF CurvePages, a
<1> HIDE DEF Is
<1>8. Is(CurvePages(q, sofar, total))
  BY <1>6, <1>7
<1> DEFINE E == CurvePages(q, sofar, total)
<1> HIDE DEF E
<1>9. E = [piece \in Nat |-> IF piece = 0 THEN a ELSE CurveTurn(q, total, E[piece - 1], piece)]
  BY <1>8 DEF Is, E
<1>10. E[0] = a
  BY <1>9
<1>11. \A n \in Nat : E[n + 1] = CurveTurn(q, total, E[n], n + 1)
  <2>1. ASSUME NEW n \in Nat PROVE E[n + 1] = CurveTurn(q, total, E[n], n + 1)
    <3>1. n + 1 \in Nat /\ n + 1 # 0 /\ (n + 1) - 1 = n
      OBVIOUS
    <3>2. QED
      BY <1>9, <3>1
  <2>2. QED
    BY <2>1
<1>12. E \in [Nat -> Loops(T)]
  <2> DEFINE Right == {n \in Nat : E[n] \in Loops(T)}
  <2>1. 0 \in Right
    BY <1>1, <1>10
  <2>2. ASSUME NEW n \in Right PROVE n + 1 \in Right
    <3>0. n \in Nat /\ E[n] \in Loops(T)
      BY Zenon
    <3>1. n \in Nat /\ n + 1 \in Nat /\ n + 1 > 0 /\ E[n] \in Loops(T)
      BY <3>0
    <3>2. CurveTurn(q, total, E[n], n + 1) \in Loops(T)
      BY <3>1, CurveTurns
    <3>3. QED
      BY <1>11, <3>1, <3>2
  <2>3. Right \in SUBSET Nat
    OBVIOUS
  <2> HIDE DEF Right
  <2>4. Right = Nat
    BY <2>1, <2>2, <2>3, SetInduction
  <2>5. \A n \in Nat : E[n] \in Loops(T)
    BY <2>4 DEF Right
  <2>6. E = [n \in Nat |-> E[n]]
    BY <1>9
  <2>7. QED
    BY <2>5, <2>6
<1>13. QED
  BY <1>10, <1>11, <1>12 DEF E, a, CurveStepped

\* What the pages read so far hold, after what was there, and that an empty one is the last.
CurveSoFar(q, sofar, loop, n) ==
    /\ loop.rows = sofar \o FirstOf(q, n * Batch)
    /\ ~ loop.more => Len(q) <= n * Batch

LEMMA CurveTurnReads ==
    ASSUME NEW T, NEW q \in Seq(T), NEW sofar \in Seq(T), NEW loop \in Loops(T),
           NEW n \in Nat, CurveSoFar(q, sofar, loop, n)
    PROVE  CurveSoFar(q, sofar, CurveTurn(q, Len(sofar) + Len(q), loop, n + 1), n + 1)
<1>0. Batch \in Nat
  BY LimitsPositive
<1>9. Continues(T, q, n, Batch)
  BY <1>0, PageContinues
<1> DEFINE a == n * Batch
           b == (n + 1) * Batch
           total == Len(sofar) + Len(q)
           piece == PageOf(q, n + 1, Batch)
           turned == CurveTurn(q, total, loop, n + 1)
<1>1. /\ Batch \in Nat /\ Batch > 0 /\ Len(q) \in Nat /\ Len(sofar) \in Nat
      /\ loop.rows \in Seq(T)
  <2>1. Batch \in Nat /\ Batch > 0
    BY LimitsPositive
  <2>2. Len(q) \in Nat /\ Len(sofar) \in Nat
    OBVIOUS
  <2>3. loop.rows \in Seq(T)
    BY Zenon DEF Loops
  <2>4. QED
    BY <2>1, <2>2, <2>3
<1>2. /\ a \in Nat /\ b \in Nat /\ b = a + Batch
      /\ piece \in Seq(T) /\ Len(piece) = Len(FirstOf(q, b)) - Len(FirstOf(q, a))
      /\ FirstOf(q, a) \o piece = FirstOf(q, b)
  BY <1>9, Zenon DEF Continues
<1>3. loop.rows = sofar \o FirstOf(q, a) /\ (~ loop.more => Len(q) <= a)
  BY DEF CurveSoFar
<1>8. SUFFICES turned.rows = sofar \o FirstOf(q, b) /\ (~ turned.more => Len(q) <= b)
  BY DEF CurveSoFar
<1> HIDE DEF a, b
<1>4. /\ FirstOf(q, a) \in Seq(T) /\ Len(FirstOf(q, a)) = IF a <= Len(q) THEN a ELSE Len(q)
      /\ Len(FirstOf(q, b)) = IF b <= Len(q) THEN b ELSE Len(q)
  BY <1>2, Fronts
<1>5. Len(loop.rows) = Len(sofar) + Len(FirstOf(q, a))
  BY <1>1, <1>3, <1>4, ConcatProperties
<1>6. CASE ~ loop.more \/ (n + 1 > 1 /\ Len(loop.rows) >= total)
  <2>1. turned = loop
    BY <1>6, Zenon DEF CurveTurn
  <2>2. Len(q) <= a
    BY <1>1, <1>2, <1>3, <1>4, <1>5, <1>6
  <2>3. Len(q) <= b
    BY <1>1, <1>2, <2>2
  <2>4. FirstOf(q, a) = q /\ FirstOf(q, b) = q
    BY <1>1, <1>2, <2>2, <2>3, Fronts
  <2>5. QED
    BY <1>3, <2>1, <2>3, <2>4
<1>7. CASE ~ (~ loop.more \/ (n + 1 > 1 /\ Len(loop.rows) >= total))
  <2>1. turned = Loop(loop.rows \o piece, n + 1 = 1 \/ piece # <<>>)
    BY <1>7, Zenon DEF CurveTurn
  <2> HIDE DEF piece, turned
  <2>2. loop.rows \o piece = sofar \o FirstOf(q, b)
    <3> DEFINE f == FirstOf(q, a)
               g == FirstOf(q, b)
    <3>1. f \in Seq(T) /\ piece \in Seq(T) /\ f \o piece = g /\ loop.rows = sofar \o f
      BY <1>2, <1>3, <1>4
    <3> HIDE DEF f, g
    <3>2. (sofar \o f) \o piece = sofar \o (f \o piece)
      <4>1. f \in Seq(T) /\ piece \in Seq(T)
        BY <3>1
      <4>2. QED
        BY ONLY <4>1, sofar \in Seq(T)
    <3>3. QED
      BY <3>1, <3>2 DEF g
  <2>3. turned.rows = loop.rows \o piece /\ (~ turned.more => piece = <<>>)
    BY <2>1 DEF Loop
  <2>4. piece = <<>> => Len(q) <= b
    <3>1. SUFFICES ASSUME piece = <<>>, b < Len(q) PROVE FALSE
      BY <1>1, <1>2
    <3>2. Len(piece) = 0
      BY <3>1
    <3>3. Len(FirstOf(q, b)) = b /\ Len(FirstOf(q, a)) = a
      BY <1>1, <1>2, <1>4, <3>1
    <3>4. 0 = b - a
      BY <1>2, <3>2, <3>3
    <3>5. QED
      <4>1. b = a + Batch /\ a \in Nat /\ Batch \in Nat /\ Batch > 0
        BY <1>1, <1>2, Zenon
      <4>2. QED
        BY ONLY <4>1, <3>4
  <2>5. QED
    BY <2>2, <2>3, <2>4
<1>10. QED
  BY <1>6, <1>7

\* The pages of a detector are all its rows.
LEMMA CurveRead ==
    ASSUME NEW T, NEW q \in Seq(T), NEW sofar \in Seq(T), NEW total \in Nat,
           total = Len(sofar) + Len(q)
    PROVE  CurvePages(q, sofar, total)[total + 1].rows = sofar \o q
<1> DEFINE E == CurvePages(q, sofar, total)
           Right == {n \in Nat : CurveSoFar(q, sofar, E[n], n)}
           N == total + 1
<1>1. Batch \in Nat /\ Batch > 0 /\ Len(q) \in Nat /\ Len(sofar) \in Nat
  <2>1. Batch \in Nat /\ Batch > 0
    BY LimitsPositive
  <2>2. Len(q) \in Nat /\ Len(sofar) \in Nat
    OBVIOUS
  <2>3. QED
    BY <2>1, <2>2
<1>2. /\ E \in [Nat -> Loops(T)] /\ E[0] = Loop(sofar, TRUE)
      /\ \A n \in Nat : E[n + 1] = CurveTurn(q, total, E[n], n + 1)
  <2>1. CurveStepped(T, q, sofar, total)
    BY CurveSteps
  <2>2. QED
    BY <2>1, Zenon DEF CurveStepped
<1> HIDE DEF E
<1>3. 0 \in Right
  <2>1. 0 * Batch = 0
    BY <1>1
  <2>2. FirstOf(q, 0) \in Seq(T) /\ Len(FirstOf(q, 0)) = 0
    <3>1. 0 \in Nat /\ 0 <= Len(q)
      BY <1>1
    <3>2. QED
      BY <3>1, Fronts
  <2>3. FirstOf(q, 0) = << >>
    BY <2>2
  <2>4. E[0].rows = sofar /\ E[0].more = TRUE
    BY <1>2 DEF Loop
  <2>5. sofar \o << >> = sofar
    BY ConcatEmptySeq
  <2>6. CurveSoFar(q, sofar, E[0], 0)
    BY <1>1, <2>1, <2>3, <2>4, <2>5 DEF CurveSoFar
  <2>7. QED
    BY <2>6
<1>4. ASSUME NEW n \in Right PROVE n + 1 \in Right
  <2>1. n \in Nat /\ n + 1 \in Nat /\ CurveSoFar(q, sofar, E[n], n) /\ E[n] \in Loops(T)
    BY <1>2
  <2>2. CurveSoFar(q, sofar, CurveTurn(q, total, E[n], n + 1), n + 1)
    BY <2>1, CurveTurnReads
  <2>3. QED
    BY <1>2, <2>1, <2>2
<1>5. Right \in SUBSET Nat
  OBVIOUS
<1> HIDE DEF Right
<1>6. Right = Nat
  BY <1>3, <1>4, <1>5, SetInduction
<1>7. N \in Nat /\ N >= Len(q)
  BY <1>1
<1> HIDE DEF N
<1>8. CurveSoFar(q, sofar, E[N], N)
  BY <1>6, <1>7 DEF Right
<1>9. N * Batch \in Nat /\ N * Batch >= Len(q)
  <2>1. N * Batch >= N /\ N * Batch \in Nat
    BY <1>1, <1>7
  <2> DEFINE M == N * Batch
             l == Len(q)
  <2>2. M \in Nat /\ l \in Nat /\ M >= N /\ N >= l
    BY <1>1, <1>7, <2>1
  <2> HIDE DEF M, l
  <2>3. M >= l
    BY <1>7, <2>2
  <2>4. QED
    BY <2>2, <2>3 DEF M, l
<1>10. FirstOf(q, N * Batch) = q
  BY <1>9, Fronts
<1>11. E[N].rows = sofar \o q
  BY <1>8, <1>10 DEF CurveSoFar
<1>12. QED
  BY <1>11 DEF E, N

-----------------------------------------------------------------------------
\* The rows of the table in order.
Timed(ids) == IsFiniteSet(ids) /\ ids \subseteq Nat /\ \A i \in ids : table[i].at \in Int

TimedIn(t, ids) == IsFiniteSet(ids) /\ ids \subseteq Nat /\ \A i \in ids : t[i].at \in Int

NewerIn(t, ids) ==
    {r \in ids \X ids : \/ t[r[1]].at > t[r[2]].at
                        \/ t[r[1]].at = t[r[2]].at /\ r[1] > r[2]}
Older(ids) ==
    {r \in ids \X ids : \/ table[r[1]].at < table[r[2]].at
                        \/ table[r[1]].at = table[r[2]].at /\ r[1] > r[2]}

LEMMA NewerOrders == ASSUME NEW t, NEW ids, TimedIn(t, ids) PROVE Orders(NewerIn(t, ids), ids)
<1>1. \A i, j \in ids : <<i, j>> \in NewerIn(t, ids) <=>
          \/ t[i].at > t[j].at
          \/ t[i].at = t[j].at /\ i > j
  <2>1. ASSUME NEW i \in ids, NEW j \in ids, NEW r, r = <<i, j>>
        PROVE  r \in NewerIn(t, ids) <=>
                   \/ t[i].at > t[j].at
                   \/ t[i].at = t[j].at /\ i > j
    <3>1. r[1] = i /\ r[2] = j /\ r \in ids \X ids
      BY <2>1
    <3>2. QED
      BY <3>1, Zenon DEF NewerIn
  <2>2. QED
    BY <2>1, Zenon
<1>2. \A i \in ids : i \in Nat /\ t[i].at \in Int
  BY DEF TimedIn
<1>3. \A i \in ids : <<i, i>> \notin NewerIn(t, ids)
  BY <1>1, <1>2
<1>4. \A i, j \in ids : i # j => <<i, j>> \in NewerIn(t, ids) \/ <<j, i>> \in NewerIn(t, ids)
  BY <1>1, <1>2
<1>5. \A i, j, k \in ids : <<i, j>> \in NewerIn(t, ids) /\ <<j, k>> \in NewerIn(t, ids) => <<i, k>> \in NewerIn(t, ids)
  BY <1>1, <1>2
<1>6. QED
  BY <1>3, <1>4, <1>5 DEF Orders

LEMMA OlderOrders == ASSUME NEW ids, Timed(ids) PROVE Orders(Older(ids), ids)
<1>1. \A i, j \in ids : <<i, j>> \in Older(ids) <=>
          \/ table[i].at < table[j].at
          \/ table[i].at = table[j].at /\ i > j
  <2>1. ASSUME NEW i \in ids, NEW j \in ids, NEW r, r = <<i, j>>
        PROVE  r \in Older(ids) <=>
                   \/ table[i].at < table[j].at
                   \/ table[i].at = table[j].at /\ i > j
    <3>1. r[1] = i /\ r[2] = j /\ r \in ids \X ids
      BY <2>1
    <3>2. QED
      BY <3>1, Zenon DEF Older
  <2>2. QED
    BY <2>1, Zenon
<1>2. \A i \in ids : i \in Nat /\ table[i].at \in Int
  BY DEF Timed
<1>3. \A i \in ids : <<i, i>> \notin Older(ids)
  BY <1>1, <1>2
<1>4. \A i, j \in ids : i # j => <<i, j>> \in Older(ids) \/ <<j, i>> \in Older(ids)
  BY <1>1, <1>2
<1>5. \A i, j, k \in ids : <<i, j>> \in Older(ids) /\ <<j, k>> \in Older(ids) => <<i, k>> \in Older(ids)
  BY <1>1, <1>2
<1>6. QED
  BY <1>3, <1>4, <1>5 DEF Orders

\* q holds each member of S once.
Holds(q, S) ==
    /\ q \in Seq(S) /\ Len(q) = Cardinality(S)
    /\ \A m, n \in 1..Len(q) : q[m] = q[n] => m = n
    /\ \A i \in S : \E n \in 1..Len(q) : q[n] = i

LEMMA ListsHold ==
    ASSUME NEW S, IsFiniteSet(S), NEW R, Orders(R, S), NEW q, ListsInOrder(q, S, R) PROVE Holds(q, S)
<1> DEFINE N == Cardinality(S)
<1>1. N \in Nat
  BY FS_CardinalityType
<1>2. q \in [1..N -> S]
  BY DEF ListsInOrder
<1>3. \A m, n \in 1..N : m < n => <<q[m], q[n]>> \in R
  BY DEF ListsInOrder
<1>4. \A i \in S : \E n \in 1..N : q[n] = i
  BY DEF ListsInOrder
<1> HIDE DEF N
<1>5. q \in Seq(S) /\ Len(q) = N
  BY <1>1, <1>2
<1>6. ASSUME NEW m \in 1..N, NEW n \in 1..N, q[m] = q[n] PROVE m = n
  <2>1. \A i \in S : ~ (<<i, i>> \in R)
    BY DEF Orders
  <2>2. q[m] \in S /\ q[n] \in S
    BY <1>2
  <2>3. ~ (m < n) /\ ~ (n < m)
    BY <1>3, <1>6, <2>1, <2>2
  <2>4. QED
    BY <1>1, <2>3
<1>7. QED
  BY <1>4, <1>5, <1>6 DEF Holds, N

LEMMA DescendingHolds == ASSUME NEW ids, Timed(ids) PROVE Holds(Descending(ids), ids)
<1>1. Descending(ids) = Ordered(ids, NewerIn(table, ids))
  BY DEF Descending, NewerIn
<1>2. IsFiniteSet(ids) /\ TimedIn(table, ids)
  BY DEF Timed, TimedIn
<1>3. QED
  BY <1>1, <1>2, NewerOrders, OrderedLists, ListsHold

LEMMA AscendingHolds == ASSUME NEW ids, Timed(ids) PROVE Holds(Ascending(ids), ids)
<1>1. Ascending(ids) = Ordered(ids, Older(ids))
  BY DEF Ascending, Older
<1>2. IsFiniteSet(ids)
  BY DEF Timed
<1>3. QED
  BY <1>1, <1>2, OlderOrders, OrderedLists, ListsHold

\* One after the other, of sets that share nothing.
LEMMA HoldsBoth ==
    ASSUME NEW S, NEW T, IsFiniteSet(S), IsFiniteSet(T), S \cap T = {}, NEW p, NEW q, Holds(p, S), Holds(q, T)
    PROVE  Holds(p \o q, S \union T) /\ Cardinality(S \union T) = Cardinality(S) + Cardinality(T)
<1> DEFINE U == S \union T
<1>1. Cardinality(U) = Cardinality(S) + Cardinality(T)
  <2>1. Cardinality(S \union T) = Cardinality(S) + Cardinality(T) - Cardinality(S \cap T)
    BY FS_Union
  <2>2. Cardinality(S \cap T) = 0
    BY FS_EmptySet
  <2>3. Cardinality(S) \in Nat /\ Cardinality(T) \in Nat
    BY FS_CardinalityType
  <2>4. QED
    BY <2>1, <2>2, <2>3
<1>2. p \in Seq(S) /\ q \in Seq(T) /\ p \in Seq(U) /\ q \in Seq(U)
  BY DEF Holds
<1> DEFINE r == p \o q
           M == Len(p)
           N == Len(q)
<1>3. M \in Nat /\ N \in Nat /\ M = Cardinality(S) /\ N = Cardinality(T)
  BY <1>2 DEF Holds
<1> HIDE DEF U
<1>4. r \in Seq(U) /\ Len(r) = M + N
  BY <1>2, ConcatProperties
<1>5. /\ \A n \in 1..M : r[n] = p[n] /\ p[n] \in S
      /\ \A n \in (M + 1)..(M + N) : r[n] = q[n - M] /\ n - M \in 1..N /\ q[n - M] \in T
  BY <1>2, <1>3
<1>6. /\ \A m, n \in 1..M : p[m] = p[n] => m = n
      /\ \A m, n \in 1..N : q[m] = q[n] => m = n
      /\ \A i \in S : \E n \in 1..M : p[n] = i
      /\ \A i \in T : \E n \in 1..N : q[n] = i
  BY DEF Holds
<1> HIDE DEF r, M, N
<1>7. ASSUME NEW m \in 1..(M + N), NEW n \in 1..(M + N), r[m] = r[n] PROVE m = n
  <2>1. CASE m <= M /\ n <= M
    BY <1>3, <1>5, <1>6, <1>7, <2>1
  <2>2. CASE m > M /\ n > M
    <3>1. m - M \in 1..N /\ n - M \in 1..N /\ q[m - M] = q[n - M]
      BY <1>3, <1>5, <1>7, <2>2
    <3>2. m - M = n - M
      BY <1>6, <3>1
    <3>3. QED
      BY <1>3, <3>2
  <2>3. CASE (m <= M /\ n > M) \/ (m > M /\ n <= M)
    <3>1. (r[m] \in S /\ r[n] \in T) \/ (r[m] \in T /\ r[n] \in S)
      BY <1>3, <1>5, <2>3
    <3>2. QED
      BY <1>7, <3>1
  <2>4. QED
    BY <1>3, <2>1, <2>2, <2>3
<1>8. ASSUME NEW i \in U PROVE \E n \in 1..(M + N) : r[n] = i
  <2>1. CASE i \in S
    <3>1. PICK n \in 1..M : p[n] = i
      BY <1>6, <2>1
    <3>2. n \in 1..(M + N) /\ r[n] = i
      BY <1>3, <1>5, <3>1
    <3>3. QED
      BY <3>2
  <2>2. CASE i \in T
    <3>1. PICK n \in 1..N : q[n] = i
      BY <1>6, <2>2
    <3>2. n + M \in (M + 1)..(M + N) /\ (n + M) - M = n /\ n + M \in 1..(M + N)
      BY <1>3
    <3>3. r[n + M] = i
      BY <1>5, <3>1, <3>2
    <3>4. QED
      BY <3>2, <3>3
  <2>3. QED
    BY <2>1, <2>2 DEF U
<1>9. Len(r) = Cardinality(U)
  BY <1>1, <1>3, <1>4
<1>10. Holds(r, U)
  BY <1>4, <1>7, <1>8, <1>9 DEF Holds
<1>11. QED
  BY <1>1, <1>10 DEF r, U

-----------------------------------------------------------------------------
\* The curve of the two detectors: refused when they have too many rows, else the rows
\* of the one and then of the other.
LEMMA CurveOfTwo ==
    ASSUME NEW w, NEW D2, NEW D1, D2 = OfDetector(w, 2), D1 = OfDetector(w, 1),
           Timed(D1), Timed(D2), D1 \cap D2 = {}
    PROVE  LET curve == CurveRows(w, <<2, 1>>)
           IN  /\ curve.refused <=> Cardinality(D1 \union D2) > HistoryMax
               /\ ~ curve.refused => Holds(curve.rows, D1 \union D2)
               /\ curve.refused \in BOOLEAN
<1> DEFINE ds == <<2, 1>>
           c0 == [refused |-> FALSE, total |-> 0, rows |-> <<>>]
           c1 == CurveOf(w, c0, 2)
           c2 == CurveOf(w, c1, 1)
           n1 == Cardinality(D1)
           n2 == Cardinality(D2)
           q1 == Ascending(D1)
           q2 == Ascending(D2)
           D == D1 \union D2
           Is(g) == g = [k \in 0..Len(ds) |-> IF k = 0 THEN c0 ELSE CurveOf(w, g[k - 1], ds[k])]
           g == [k \in 0..2 |-> IF k = 0 THEN c0 ELSE IF k = 1 THEN c1 ELSE c2]
<1>1. HistoryMax \in Nat
  BY LimitsPositive
<1>2. n1 \in Nat /\ n2 \in Nat
  BY FS_CardinalityType DEF Timed
<1>3. Holds(q1, D1) /\ Holds(q2, D2)
  BY AscendingHolds
<1>4. IsFiniteSet(D1) /\ IsFiniteSet(D2)
  BY DEF Timed
<1>5. Holds(q2 \o q1, D2 \union D1) /\ Cardinality(D2 \union D1) = n2 + n1
  BY <1>3, <1>4, HoldsBoth
<1>6. Holds(q2 \o q1, D) /\ Cardinality(D) = n2 + n1
  <2>1. D2 \union D1 = D
    OBVIOUS
  <2>2. QED
    BY <1>5, <2>1
<1>7. CurveRows(w, ds) = c2
  <2>1. Len(ds) = 2 /\ ds[1] = 2 /\ ds[2] = 1
    OBVIOUS
  <2> HIDE DEF ds, c0
  <2>2. g[0] = c0 /\ g[1] = c1 /\ g[2] = c2
    OBVIOUS
  <2> HIDE DEF c1, c2
  <2>3. \A k \in 0..2 : k = 0 \/ k = 1 \/ k = 2
    OBVIOUS
  <2>4. c1 = CurveOf(w, g[0], ds[1]) /\ c2 = CurveOf(w, g[1], ds[2])
    BY <2>1, <2>2 DEF c1, c2
  <2>5. \A k \in 0..2 : g[k] = IF k = 0 THEN c0 ELSE CurveOf(w, g[k - 1], ds[k])
    <3>1. 1 - 1 = 0 /\ 2 - 1 = 1
      OBVIOUS
    <3> HIDE DEF g
    <3>2. QED
      BY <2>2, <2>3, <2>4, <3>1
  <2>6. g = [k \in 0..2 |-> g[k]]
    OBVIOUS
  <2> HIDE DEF g
  <2>7. Is(g)
    BY <2>1, <2>5, <2>6
  <2>8. CurveRows(w, ds) = (CHOOSE h : Is(h))[Len(ds)]
    BY Zenon DEF CurveRows, c0
  <2> DEFINE E == CHOOSE h : Is(h)
  <2>9. Is(E)
    BY <2>7
  <2> HIDE DEF E
  <2>10. E[0] = c0 /\ E[1] = CurveOf(w, E[0], ds[1]) /\ E[2] = CurveOf(w, E[1], ds[2])
    <3>1. 0 \in 0..2 /\ 1 \in 0..2 /\ 2 \in 0..2 /\ 1 - 1 = 0 /\ 2 - 1 = 1 /\ 1 # 0 /\ 2 # 0
      OBVIOUS
    <3>2. \A k \in 0..2 : E[k] = IF k = 0 THEN c0 ELSE CurveOf(w, E[k - 1], ds[k])
      BY <2>1, <2>9
    <3>3. QED
      BY <3>1, <3>2
  <2>11. E[2] = c2
    BY <2>1, <2>10 DEF c1, c2
  <2>12. QED
    BY <2>1, <2>8, <2>11 DEF E
<1> HIDE DEF q1, q2, n1, n2, D
<1>8. c1 = IF n2 > HistoryMax THEN [refused |-> TRUE, total |-> 0, rows |-> <<>>]
           ELSE [refused |-> FALSE, total |-> n2, rows |-> q2]
  <2>1. 0 + n2 = n2
    BY <1>2
  <2>2. q2 \in Seq(D2) /\ Len(q2) = n2
    BY <1>3 DEF Holds, n2
  <2>3. <<>> \in Seq(D2) /\ Len(<<>>) + Len(q2) = n2 /\ <<>> \o q2 = q2
    BY <1>2, <2>2
  <2>4. CurvePages(q2, <<>>, n2)[n2 + 1].rows = q2
    BY <1>2, <2>2, <2>3, CurveRead
  <2>5. QED
    BY <2>1, <2>4 DEF CurveOf, n2, q2
<1>9. c2 = IF n2 > HistoryMax \/ n2 + n1 > HistoryMax
           THEN [refused |-> TRUE, total |-> c1.total, rows |-> <<>>]
           ELSE [refused |-> FALSE, total |-> n2 + n1, rows |-> q2 \o q1]
  <2> HIDE DEF c1
  <2>1. CASE n2 > HistoryMax
    <3>1. c1.refused
      BY <1>8, <2>1
    <3>2. QED
      BY <2>1, <3>1 DEF CurveOf
  <2>2. CASE ~ (n2 > HistoryMax)
    <3>1. c1.refused = FALSE /\ c1.total = n2 /\ c1.rows = q2
      BY <1>8, <2>2
    <3>2. /\ q1 \in Seq(D) /\ Len(q1) = n1 /\ q2 \in Seq(D) /\ Len(q2) = n2
      BY <1>3 DEF Holds, n1, n2, D
    <3>3. CurvePages(q1, q2, n2 + n1)[(n2 + n1) + 1].rows = q2 \o q1
      <4>1. n2 + n1 \in Nat /\ n2 + n1 = Len(q2) + Len(q1)
        <5>1. n2 + n1 \in Nat
          BY <1>2
        <5>2. QED
          BY <3>2, <5>1
      <4>2. QED
        BY <3>2, <4>1, CurveRead
    <3>4. QED
      BY <2>2, <3>1, <3>3 DEF CurveOf, n1, q1
  <2>3. QED
    BY <2>1, <2>2
<1> HIDE DEF c1, c2
<1>10. n2 > HistoryMax \/ n2 + n1 > HistoryMax <=> Cardinality(D) > HistoryMax
  BY <1>1, <1>2, <1>6
<1>11. c2.refused <=> Cardinality(D) > HistoryMax
  BY <1>9, <1>10
<1>12. ~ c2.refused => c2.rows = q2 \o q1
  BY <1>9
<1>13. c2.refused \in BOOLEAN
  BY <1>9
<1>14. QED
  BY <1>6, <1>7, <1>11, <1>12, <1>13, Zenon DEF D

\* The order of the points by their places in the rows read.
LEMMA PlacesOrder ==
    ASSUME NEW S \in SUBSET Nat, NEW at \in [S -> Int], NEW id \in [S -> Nat], NEW R,
           \A p, r \in S : id[p] = id[r] => p = r,
           \A p, r \in S : <<p, r>> \in R <=>
               \/ at[p] < at[r]
               \/ at[p] = at[r] /\ id[p] < id[r]
               \/ id[p] = id[r] /\ p < r
    PROVE  Orders(R, S) /\ \A p, r \in S : <<p, r>> \in R => at[p] <= at[r]
<1>1. \A p \in S : p \in Nat /\ at[p] \in Int /\ id[p] \in Nat
  OBVIOUS
<1>2. \A p \in S : ~ (<<p, p>> \in R)
  BY <1>1
<1>3. \A p, r \in S : p # r => <<p, r>> \in R \/ <<r, p>> \in R
  BY <1>1
<1>4. \A p, r \in S : <<p, r>> \in R => at[p] < at[r] \/ (at[p] = at[r] /\ id[p] < id[r])
  BY <1>1
<1>5. ASSUME NEW p \in S, NEW r \in S, NEW t \in S, <<p, r>> \in R, <<r, t>> \in R PROVE <<p, t>> \in R
  <2>1. at[p] < at[r] \/ (at[p] = at[r] /\ id[p] < id[r])
    BY <1>4, <1>5
  <2>2. at[r] < at[t] \/ (at[r] = at[t] /\ id[r] < id[t])
    BY <1>4, <1>5
  <2>3. at[p] < at[t] \/ (at[p] = at[t] /\ id[p] < id[t])
    BY <1>1, <2>1, <2>2
  <2>4. QED
    BY <2>3
<1>6. \A p, r \in S : <<p, r>> \in R => at[p] <= at[r]
  BY <1>1, <1>4
<1>7. QED
  BY <1>2, <1>3, <1>5, <1>6 DEF Orders

\* The first numbers are as many as the last says.
LEMMA FirstNumbers == ASSUME NEW n \in Nat PROVE IsFiniteSet(1..n) /\ Cardinality(1..n) = n
<1>1. IsFiniteSet(1..n) /\ Cardinality(1..n) = IF 1 > n THEN 0 ELSE n - 1 + 1
  BY FS_Interval
<1>2. QED
  BY <1>1

\* The points of a curve, when its rows are read: the oldest, each once.
LEMMA CurvePoints ==
    ASSUME NEW w, NEW ids, Timed(ids), ~ CurveRows(w, <<2, 1>>).refused,
           Holds(CurveRows(w, <<2, 1>>).rows, ids)
    PROVE  LET dots == query_history(w, <<2, 1>>).points
               read == ToSet(dots)
           IN  /\ IsInjective(dots)
               /\ Cardinality(read) = Min({CurveSize, Cardinality(ids)})
               /\ \A i \in read, j \in ids \ read : table[i].at <= table[j].at
<1> DEFINE lines == CurveRows(w, <<2, 1>>).rows
           When(p) == table[lines[p]].at
           order == {r \in (DOMAIN lines) \X (DOMAIN lines) :
                       \/ When(r[1]) < When(r[2])
                       \/ When(r[1]) = When(r[2]) /\ lines[r[1]] < lines[r[2]]
                       \/ lines[r[1]] = lines[r[2]] /\ r[1] < r[2]}
           places == Ordered(DOMAIN lines, order)
           all == [n \in DOMAIN places |-> lines[places[n]]]
           dots == PageOf(all, 1, CurveSize)
           read == ToSet(dots)
           N == Cardinality(ids)
           S == 1..N
<1>1. query_history(w, <<2, 1>>).points = dots
  BY DEF query_history
<1>2. CurveSize \in Nat /\ N \in Nat
  BY FS_CardinalityType, RecordsAssumption DEF Timed
<1> HIDE DEF lines
<1>3. /\ lines \in Seq(ids) /\ Len(lines) = N
      /\ \A m, n \in 1..N : lines[m] = lines[n] => m = n
      /\ \A i \in ids : \E n \in 1..N : lines[n] = i
  BY DEF Holds, lines
<1> HIDE DEF N
<1>4. DOMAIN lines = S /\ \A p \in S : lines[p] \in ids /\ lines[p] \in Nat /\ When(p) \in Int
  <2>1. DOMAIN lines = S /\ \A p \in S : lines[p] \in ids
    BY <1>2, <1>3
  <2>2. \A i \in ids : i \in Nat /\ table[i].at \in Int
    BY DEF Timed
  <2> HIDE DEF S
  <2>3. QED
    BY <2>1, <2>2
<1>5. \A p, r \in S : <<p, r>> \in order <=>
          \/ When(p) < When(r)
          \/ When(p) = When(r) /\ lines[p] < lines[r]
          \/ lines[p] = lines[r] /\ p < r
  <2>1. ASSUME NEW p \in S, NEW r \in S, NEW c, c = <<p, r>>
        PROVE  c \in order <=>
                   \/ When(p) < When(r)
                   \/ When(p) = When(r) /\ lines[p] < lines[r]
                   \/ lines[p] = lines[r] /\ p < r
    <3>1. c[1] = p /\ c[2] = r /\ c \in (DOMAIN lines) \X (DOMAIN lines)
      BY <1>4, <2>1
    <3>2. QED
      BY <3>1, Zenon
  <2>2. QED
    BY <2>1, Zenon
<1>6. Orders(order, S) /\ \A p, r \in S : <<p, r>> \in order => When(p) <= When(r)
  <2> DEFINE at == [p \in S |-> When(p)]
             id == [p \in S |-> lines[p]]
  <2> HIDE DEF order, When
  <2>1. S \in SUBSET Nat
    BY <1>2
  <2>2. \A p, r \in S : lines[p] = lines[r] => p = r
    BY <1>3
  <2> HIDE DEF S
  <2>3. at \in [S -> Int] /\ id \in [S -> Nat] /\ \A p \in S : at[p] = When(p) /\ id[p] = lines[p]
    BY <1>4
  <2> HIDE DEF at, id
  <2>4. \A p, r \in S : id[p] = id[r] => p = r
    BY <2>2, <2>3
  <2>5. \A p, r \in S : <<p, r>> \in order <=>
          \/ at[p] < at[r]
          \/ at[p] = at[r] /\ id[p] < id[r]
          \/ id[p] = id[r] /\ p < r
    <3>1. ASSUME NEW p \in S, NEW r \in S
          PROVE  <<p, r>> \in order <=>
                    \/ at[p] < at[r]
                    \/ at[p] = at[r] /\ id[p] < id[r]
                    \/ id[p] = id[r] /\ p < r
      <4>1. at[p] = When(p) /\ at[r] = When(r) /\ id[p] = lines[p] /\ id[r] = lines[r]
        BY <2>3
      <4>2. QED
        BY <1>5, <4>1, Zenon
    <3>2. QED
      BY <3>1, Zenon
  <2>6. Orders(order, S) /\ \A p, r \in S : <<p, r>> \in order => at[p] <= at[r]
    BY <2>1, <2>3, <2>4, <2>5, PlacesOrder
  <2>7. QED
    BY <2>3, <2>6
<1>7. IsFiniteSet(S) /\ Cardinality(S) = N
  BY <1>2, FirstNumbers
<1> HIDE DEF order
<1>8. ListsInOrder(places, S, order)
  BY <1>4, <1>6, <1>7, OrderedLists
<1> HIDE DEF places, S
<1>9. /\ places \in [1..N -> S] /\ \A i \in S : \E n \in 1..N : places[n] = i
      /\ \A m, n \in 1..N : m < n => <<places[m], places[n]>> \in order
  BY <1>7, <1>8 DEF ListsInOrder
<1>10. all \in Seq(ids) /\ Len(all) = N /\ \A n \in 1..N : all[n] = lines[places[n]]
  <2>1. DOMAIN places = 1..N /\ \A n \in 1..N : lines[places[n]] \in ids
    BY <1>4, <1>9
  <2>2. QED
    BY <1>2, <2>1
<1> HIDE DEF all
<1> DEFINE K == IF CurveSize <= N THEN CurveSize ELSE N
<1>11. dots = FirstOf(all, CurveSize)
  BY <1>2, FirstPage
<1>12. /\ dots \in Seq(ids) /\ Len(dots) = K
       /\ \A n \in 1..K : dots[n] = all[n]
  <2>1. /\ FirstOf(all, CurveSize) \in Seq(ids)
        /\ Len(FirstOf(all, CurveSize)) = IF CurveSize <= Len(all) THEN CurveSize ELSE Len(all)
        /\ \A n \in 1..Len(FirstOf(all, CurveSize)) : FirstOf(all, CurveSize)[n] = all[n]
    BY <1>2, <1>10, Fronts
  <2>2. QED
    BY <1>10, <1>11, <2>1
<1>13. K \in Nat /\ K <= N /\ 1..K \subseteq 1..N
  BY <1>2
<1> HIDE DEF dots, K
<1>14. DOMAIN dots = 1..K /\ dots \in [1..K -> ids]
  BY <1>12, <1>13
<1>15. ASSUME NEW m \in 1..N, NEW n \in 1..N, m < n
       PROVE  all[m] # all[n] /\ table[all[m]].at <= table[all[n]].at
  <2>1. places[m] \in S /\ places[n] \in S /\ <<places[m], places[n]>> \in order
    BY <1>9, <1>15
  <2>2. places[m] # places[n]
    BY <1>6, <2>1 DEF Orders
  <2>3. lines[places[m]] # lines[places[n]]
    BY <1>3, <2>1, <2>2 DEF S
  <2>4. When(places[m]) <= When(places[n])
    BY <1>6, <2>1
  <2>5. QED
    BY <1>10, <2>3, <2>4
<1>16. ASSUME NEW m \in 1..K, NEW n \in 1..K, dots[m] = dots[n] PROVE m = n
  <2>1. all[m] = all[n] /\ m \in 1..N /\ n \in 1..N
    BY <1>12, <1>13, <1>16
  <2>2. ~ (m < n) /\ ~ (n < m)
    BY <1>15, <2>1
  <2>3. m \in Nat /\ n \in Nat
    BY <1>13
  <2>4. QED
    BY <2>2, <2>3
<1>17. IsInjective(dots)
  BY <1>14, <1>16 DEF IsInjective
<1>18. read = {dots[n] : n \in 1..K}
  BY <1>14 DEF ToSet
<1> HIDE DEF read
<1>19. Cardinality(read) = K
  <2>1. dots \in Bijection(1..K, read)
    <3>1. dots \in [1..K -> read]
      BY <1>14, <1>18
    <3>2. \A i \in read : \E n \in 1..K : dots[n] = i
      BY <1>18
    <3>3. QED
      BY <1>16, <3>1, <3>2 DEF Bijection, Injection, Surjection, IsInjective
  <2>2. IsFiniteSet(1..K) /\ Cardinality(1..K) = K
    BY <1>13, FirstNumbers
  <2> DEFINE FirstK == 1..K
  <2>3. dots \in Bijection(FirstK, read) /\ IsFiniteSet(FirstK) /\ Cardinality(FirstK) = K
    BY <2>1, <2>2
  <2> HIDE DEF FirstK
  <2>4. QED
    BY <2>3, FS_Bijection DEF ExistsBijection
<1>20. Min({CurveSize, N}) = K
  BY <1>2, LessOfTwo DEF K
<1>21. ASSUME NEW i \in read, NEW j \in ids \ read PROVE table[i].at <= table[j].at
  <2>1. PICK m \in 1..K : dots[m] = i
    BY <1>18
  <2>2. PICK p \in 1..N : lines[p] = j
    BY <1>3
  <2>3. PICK n \in 1..N : places[n] = p
    BY <1>9, <2>2 DEF S
  <2>4. all[n] = j
    BY <1>10, <2>2, <2>3
  <2>5. n \notin 1..K
    BY <1>12, <1>18, <2>4
  <2>6. m \in 1..N /\ m < n /\ all[m] = i
    <3>1. m \in 1..N /\ all[m] = i
      BY <1>12, <1>13, <2>1
    <3>2. m < n
      BY <1>2, <1>13, <2>5
    <3>3. QED
      BY <3>1, <3>2
  <2>7. QED
    BY <1>15, <2>4, <2>6
<1>22. QED
  BY <1>1, <1>17, <1>19, <1>20, <1>21 DEF read, N

-----------------------------------------------------------------------------
\* No value of r is there twice.
Once(r) == \A a, b \in 1..Len(r) : r[a] = r[b] => a = b

\* The first m of the rows S of the table t.
Foremost(S, t, m) == FirstOf(Ordered(S, NewerIn(t, S)), m)

\* They are those that fewer than m others precede.
LEMMA FrontRows ==
    ASSUME NEW S, NEW t, TimedIn(t, S), NEW m \in Nat
    PROVE  /\ Foremost(S, t, m) \in Seq(S)
           /\ Once(Foremost(S, t, m))
           /\ ToSet(Foremost(S, t, m)) = {i \in S : Cardinality({j \in S : <<j, i>> \in NewerIn(t, S)}) < m}
           /\ ToSet(Foremost(S, t, m)) \subseteq S
<1> DEFINE R == NewerIn(t, S)
           q == Ordered(S, R)
           N == Cardinality(S)
           Rank_(i) == Cardinality({j \in S : <<j, i>> \in R})
           f == FirstOf(q, m)
<1>1. IsFiniteSet(S) /\ N \in Nat
  BY FS_CardinalityType DEF TimedIn
<1>2. Orders(R, S)
  BY NewerOrders
<1> HIDE DEF R
<1>3. ListsInOrder(q, S, R) /\ \A n \in 1..N : Rank_(q[n]) = n - 1
  BY <1>1, <1>2, OrderedLists
<1> HIDE DEF q
<1>4. Holds(q, S)
  BY <1>1, <1>2, <1>3, ListsHold
<1>5. /\ q \in Seq(S) /\ Len(q) = N /\ \A n \in 1..N : q[n] \in S
      /\ \A a, b \in 1..N : q[a] = q[b] => a = b
      /\ \A i \in S : \E n \in 1..N : q[n] = i
  BY <1>4 DEF Holds
<1>6. /\ f \in Seq(S) /\ Len(f) = IF m <= N THEN m ELSE N
      /\ \A n \in 1..Len(f) : f[n] = q[n]
  BY <1>5, Fronts
<1> HIDE DEF f, N
<1>7. Once(f)
  BY <1>1, <1>5, <1>6 DEF Once
<1>8. \A i \in S : Rank_(i) < m <=> i \in ToSet(f)
  <2> HIDE DEF Rank_
  <2>1. ASSUME NEW i \in S PROVE Rank_(i) < m <=> \E n \in 1..Len(f) : f[n] = i
    <3>1. PICK n \in 1..N : q[n] = i
      BY <1>5
    <3>2. Rank_(i) = n - 1
      BY <1>3, <3>1
    <3>3. Rank_(i) < m <=> n \in 1..Len(f)
      BY <1>1, <1>6, <3>1, <3>2
    <3>4. n \in 1..Len(f) => f[n] = i
      BY <1>6, <3>1
    <3>5. \A p \in 1..Len(f) : f[p] = i => p = n
      BY <1>1, <1>5, <1>6, <3>1
    <3>6. QED
      BY <3>3, <3>4, <3>5
  <2>2. ToSet(f) = {f[n] : n \in 1..Len(f)}
    BY <1>6 DEF ToSet
  <2>3. QED
    BY <2>1, <2>2
<1>9. \A i \in ToSet(f) : i \in S
  BY <1>6 DEF ToSet
<1>10. QED
  BY <1>6, <1>7, <1>8, <1>9 DEF Foremost, f, q, R

\* A row is no further back among fewer rows.
LEMMA FrontOfFewer ==
    ASSUME NEW S, NEW t, TimedIn(t, S), NEW T, NEW u, TimedIn(u, T), S \subseteq T,
           \A i \in S : u[i].at = t[i].at, NEW m \in Nat
    PROVE  ToSet(Foremost(T, u, m)) \cap S \subseteq ToSet(Foremost(S, t, m))
<1> DEFINE Place(i) == Cardinality({j \in S : <<j, i>> \in NewerIn(t, S)})
           Place_(i) == Cardinality({j \in T : <<j, i>> \in NewerIn(u, T)})
<1>20. ToSet(Foremost(S, t, m)) = {i \in S : Place(i) < m}
  BY FrontRows DEF Once
<1>21. ToSet(Foremost(T, u, m)) = {i \in T : Place_(i) < m}
  BY FrontRows DEF Once
<1>1. SUFFICES ASSUME NEW i \in S, Cardinality({j \in T : <<j, i>> \in NewerIn(u, T)}) < m
               PROVE  Cardinality({j \in S : <<j, i>> \in NewerIn(t, S)}) < m
  <2> HIDE DEF Place, Place_
  <2>1. SUFFICES ASSUME NEW i \in S, Place_(i) < m PROVE Place(i) < m
    BY <1>20, <1>21
  <2>2. QED
    BY <2>1 DEF Place, Place_
<1> DEFINE A == {j \in S : <<j, i>> \in NewerIn(t, S)}
           B == {j \in T : <<j, i>> \in NewerIn(u, T)}
<1>2. \A j \in S : <<j, i>> \in NewerIn(t, S) => <<j, i>> \in NewerIn(u, T)
  <2>1. SUFFICES ASSUME NEW j \in S, NEW r, r = <<j, i>>, r \in NewerIn(t, S) PROVE r \in NewerIn(u, T)
    OBVIOUS
  <2>2. r[1] = j /\ r[2] = i /\ r \in T \X T /\ u[i].at = t[i].at /\ u[j].at = t[j].at
    BY <2>1
  <2>3. QED
    BY <2>1, <2>2, Zenon DEF NewerIn
<1>3. A \in SUBSET B
  BY <1>2
<1>4. IsFiniteSet(B)
  <2>1. B \in SUBSET T /\ IsFiniteSet(T)
    BY DEF TimedIn
  <2> HIDE DEF B
  <2>2. QED
    BY <2>1, FS_Subset
<1> HIDE DEF A, B
<1>5. Cardinality(A) <= Cardinality(B) /\ Cardinality(A) \in Nat /\ Cardinality(B) \in Nat
  <2>1. IsFiniteSet(A) /\ Cardinality(A) <= Cardinality(B)
    BY <1>3, <1>4, FS_Subset
  <2>2. QED
    BY <1>4, <2>1, FS_CardinalityType
<1>6. Cardinality(B) < m
  BY <1>1 DEF B
<1>7. Cardinality(A) < m
  BY <1>5, <1>6
<1>8. QED
  BY <1>7 DEF A

\* The same rows at the same times are in the same order.
LEMMA FrontOfSame ==
    ASSUME NEW S, NEW t, NEW u, \A i \in S : u[i].at = t[i].at, NEW m
    PROVE  Foremost(S, u, m) = Foremost(S, t, m)
<1>1. \A r \in S \X S : r[1] \in S /\ r[2] \in S
  OBVIOUS
<1>2. NewerIn(u, S) = NewerIn(t, S)
  BY <1>1 DEF NewerIn
<1>3. QED
  BY <1>2 DEF Foremost

\* What the pages of the walk w have read, when the rows S of the table t match.
WalkOver(w, S, t) ==
    LET newest == Foremost(S, t, w.page * w.size)
    IN  /\ w.came = {} /\ ~ w.gone => w.read = newest
        /\ ~ w.gone => ToSet(newest) \ w.came \subseteq ToSet(w.read)
        /\ w.came = {} => /\ Once(w.read)
                          /\ ToSet(w.read) \cap S \subseteq ToSet(newest)

\* Rows come or go, between two pages.
LEMMA WalkOverOthers ==
    ASSUME NEW S, NEW t, TimedIn(t, S), NEW T, NEW u, TimedIn(u, T), \A i \in S \cap T : u[i].at = t[i].at,
           NEW w, w.page * w.size \in Nat, WalkOver(w, S, t),
           NEW v, v.page = w.page, v.size = w.size, v.read = w.read,
           v.came = w.came \union (T \ S), v.gone <=> (w.gone \/ ~ S \subseteq T),
           v.came = {} \/ ~ v.gone
    PROVE  WalkOver(v, T, u)
<1> DEFINE m == w.page * w.size
           old == Foremost(S, t, m)
           new == Foremost(T, u, m)
<1>1. v.page * v.size = m /\ m \in Nat
  OBVIOUS
<1> HIDE DEF m
<1>2. /\ w.came = {} /\ ~ w.gone => w.read = old
      /\ ~ w.gone => ToSet(old) \ w.came \subseteq ToSet(w.read)
      /\ w.came = {} => /\ Once(w.read)
                        /\ ToSet(w.read) \cap S \subseteq ToSet(old)
  BY DEF WalkOver, m
<1>3. ToSet(new) \subseteq T
  BY <1>1, FrontRows
<1>4. ASSUME v.came = {}, ~ v.gone PROVE v.read = new
  <2>1. S = T /\ w.came = {} /\ ~ w.gone
    BY <1>4
  <2>2. new = old
    BY <2>1, FrontOfSame
  <2>3. QED
    BY <1>2, <2>1, <2>2
<1>5. ASSUME ~ v.gone PROVE ToSet(new) \ v.came \subseteq ToSet(v.read)
  <2>1. S \subseteq T /\ ~ w.gone
    BY <1>5
  <2>2. ToSet(new) \cap S \subseteq ToSet(old)
    <3>1. \A i \in S : u[i].at = t[i].at
      BY <2>1
    <3>2. QED
      BY <1>1, <2>1, <3>1, FrontOfFewer
  <2> HIDE DEF new, old
  <2>3. QED
    BY <1>2, <1>3, <2>1, <2>2
<1>6. ASSUME v.came = {}
      PROVE  /\ Once(v.read)
             /\ ToSet(v.read) \cap T \subseteq ToSet(new)
  <2>1. T \subseteq S /\ w.came = {}
    BY <1>6
  <2>2. ToSet(old) \cap T \subseteq ToSet(new)
    <3>1. \A i \in T : t[i].at = u[i].at
      BY <2>1
    <3>2. QED
      BY <1>1, <2>1, <3>1, FrontOfFewer
  <2> HIDE DEF new, old
  <2>3. QED
    BY <1>2, <2>1, <2>2
<1>7. QED
  BY <1>1, <1>4, <1>5, <1>6 DEF WalkOver

\* Two sequences one after the other: each value of the whole is of one part.
LEMMA ValuesOfBoth ==
    ASSUME NEW V, NEW p \in Seq(V), NEW q \in Seq(V)
    PROVE  /\ p \o q \in Seq(V) /\ Len(p \o q) = Len(p) + Len(q)
           /\ \A a \in 1..Len(p) : (p \o q)[a] = p[a]
           /\ \A a \in 1..Len(q) : (p \o q)[Len(p) + a] = q[a]
           /\ ToSet(p \o q) = ToSet(p) \union ToSet(q)
<1> DEFINE r == p \o q
           M == Len(p)
           N == Len(q)
<1>1. M \in Nat /\ N \in Nat /\ r \in Seq(V) /\ Len(r) = M + N
  BY ConcatProperties
<1>2. /\ \A a \in 1..M : r[a] = p[a] /\ a \in 1..(M + N)
      /\ \A a \in 1..N : r[M + a] = q[a] /\ M + a \in 1..(M + N)
  BY <1>1
<1>3. DOMAIN p = 1..M /\ DOMAIN q = 1..N /\ DOMAIN r = 1..(M + N)
  BY <1>1
<1> HIDE DEF r, M, N
<1>4. \A a \in 1..(M + N) : a \in 1..M \/ (a - M \in 1..N /\ M + (a - M) = a)
  BY <1>1
<1>5. ToSet(r) = ToSet(p) \union ToSet(q)
  BY <1>2, <1>3, <1>4 DEF ToSet
<1>6. QED
  BY <1>1, <1>2, <1>5 DEF r, M, N

LEMMA OnceInBoth ==
    ASSUME NEW V, NEW p \in Seq(V), NEW q \in Seq(V)
    PROVE  Once(p \o q) <=> Once(p) /\ Once(q) /\ ToSet(p) \cap ToSet(q) = {}
<1> DEFINE r == p \o q
           M == Len(p)
           N == Len(q)
<1>1. /\ M \in Nat /\ N \in Nat /\ Len(r) = M + N
      /\ \A a \in 1..M : r[a] = p[a] /\ a \in 1..(M + N)
      /\ \A a \in 1..N : r[M + a] = q[a] /\ M + a \in 1..(M + N)
  BY ValuesOfBoth
<1>2. ToSet(p) = {p[a] : a \in 1..M} /\ ToSet(q) = {q[a] : a \in 1..N}
  BY <1>1 DEF ToSet
<1> HIDE DEF r, M, N
<1>3. ASSUME \A a, b \in 1..(M + N) : r[a] = r[b] => a = b
      PROVE  /\ \A a, b \in 1..M : p[a] = p[b] => a = b
             /\ \A a, b \in 1..N : q[a] = q[b] => a = b
             /\ ToSet(p) \cap ToSet(q) = {}
  <2>1. \A a, b \in 1..M : p[a] = p[b] => a = b
    BY <1>1, <1>3
  <2>2. ASSUME NEW a \in 1..N, NEW b \in 1..N, q[a] = q[b] PROVE a = b
    <3>1. M + a = M + b
      BY <1>1, <1>3, <2>2
    <3>2. QED
      BY <1>1, <3>1
  <2>3. ASSUME NEW a \in 1..M, NEW b \in 1..N PROVE p[a] # q[b]
    <3>1. a # M + b
      BY <1>1
    <3>2. QED
      BY <1>1, <1>3, <3>1
  <2>4. QED
    BY <1>2, <2>1, <2>2, <2>3
<1>4. ASSUME \A a, b \in 1..M : p[a] = p[b] => a = b,
             \A a, b \in 1..N : q[a] = q[b] => a = b,
             ToSet(p) \cap ToSet(q) = {},
             NEW a \in 1..(M + N), NEW b \in 1..(M + N), r[a] = r[b]
      PROVE  a = b
  <2>1. \A x \in 1..(M + N) : x \in 1..M \/ (x - M \in 1..N /\ M + (x - M) = x)
    BY <1>1
  <2>2. CASE a \in 1..M /\ b \in 1..M
    BY <1>1, <1>4, <2>2
  <2>3. CASE a - M \in 1..N /\ b - M \in 1..N
    <3>1. r[a] = q[a - M] /\ r[b] = q[b - M]
      <4>1. M + (a - M) = a /\ M + (b - M) = b
        BY <1>1
      <4>2. QED
        BY <1>1, <2>3, <4>1
    <3>2. a - M = b - M
      BY <1>4, <2>3, <3>1
    <3>3. QED
      BY <1>1, <3>2
  <2>4. ASSUME NEW x \in 1..M, NEW y \in 1..(M + N), y - M \in 1..N, r[x] = r[y] PROVE FALSE
    <3>1. M + (y - M) = y
      BY <1>1
    <3>2. r[y] = q[y - M] /\ r[x] = p[x]
      BY <1>1, <2>4, <3>1
    <3>3. r[y] \in ToSet(q) /\ r[x] \in ToSet(p)
      BY <1>2, <2>4, <3>2
    <3>4. QED
      BY <1>4, <2>4, <3>3
  <2>5. QED
    BY <1>4, <2>1, <2>2, <2>3, <2>4
<1>5. QED
  BY <1>1, <1>3, <1>4 DEF r, M, N, Once

\* The next page is read, of the rows that match now.
LEMMA WalkOverPage ==
    ASSUME NEW S, NEW t, TimedIn(t, S), NEW q, q = Ordered(S, NewerIn(t, S)), Holds(q, S),
           NEW n \in Nat, NEW m \in Nat, NEW w, w.page = m, w.size = n, w.read \in Seq(Nat), WalkOver(w, S, t),
           NEW v, v.page = m + 1, v.size = n, v.read = w.read \o PageOf(q, m + 1, n),
           v.came = w.came, v.gone = w.gone
    PROVE  WalkOver(v, S, t) /\ v.read \in Seq(Nat)
<1> DEFINE a == m * n
           b == (m + 1) * n
           old == FirstOf(q, a)
           new == FirstOf(q, b)
           piece == PageOf(q, m + 1, n)
<1>1. q \in Seq(S) /\ S \subseteq Nat
  BY DEF Holds, TimedIn
<1>2. a \in Nat /\ b \in Nat /\ piece \in Seq(S) /\ old \o piece = new
  <2>1. Continues(S, q, m, n)
    BY <1>1, PageContinues
  <2>2. QED
    BY <2>1, Zenon DEF Continues
<1>3. Foremost(S, t, w.page * w.size) = old /\ Foremost(S, t, v.page * v.size) = new
  BY DEF Foremost
<1>4. Once(new) /\ old \in Seq(S) /\ new \in Seq(S)
  <2>1. Once(Foremost(S, t, b))
    BY <1>2, FrontRows
  <2>2. old \in Seq(S) /\ new \in Seq(S)
    BY <1>1, <1>2, Fronts
  <2>3. Foremost(S, t, b) = new
    BY DEF Foremost
  <2>4. QED
    BY <2>1, <2>2, <2>3
<1> HIDE DEF a, b, old, new, piece
<1>5. /\ w.came = {} /\ ~ w.gone => w.read = old
      /\ ~ w.gone => ToSet(old) \ w.came \subseteq ToSet(w.read)
      /\ w.came = {} => Once(w.read) /\ ToSet(w.read) \cap S \subseteq ToSet(old)
  BY <1>3 DEF WalkOver
<1>6. Once(piece) /\ ToSet(old) \cap ToSet(piece) = {} /\ ToSet(new) = ToSet(old) \union ToSet(piece)
  <2>1. Once(old \o piece)
    BY <1>2, <1>4
  <2>2. old \in Seq(S) /\ piece \in Seq(S)
    BY <1>2, <1>4
  <2>3. Once(piece) /\ ToSet(old) \cap ToSet(piece) = {}
    <3>1. Once(old \o piece) <=> Once(old) /\ Once(piece) /\ ToSet(old) \cap ToSet(piece) = {}
      BY ONLY <2>2, OnceInBoth
    <3>2. QED
      BY ONLY <3>1, <2>1
  <2>4. ToSet(old \o piece) = ToSet(old) \union ToSet(piece)
    BY ONLY <2>2, ValuesOfBoth, Zenon
  <2>5. QED
    BY <1>2, <2>3, <2>4
<1>7. piece \in Seq(Nat) /\ \A i \in ToSet(piece) : i \in S
  <2>1. \A x \in DOMAIN piece : piece[x] \in S
    BY ONLY <1>2
  <2>2. piece \in Seq(Nat)
    <3>1. piece \in Seq(S) /\ \A i \in S : i \in Nat
      BY <1>1, <1>2
    <3>2. QED
      BY ONLY <3>1
  <2>3. QED
    BY <2>1, <2>2 DEF ToSet
<1>8. v.read \in Seq(Nat) /\ ToSet(v.read) = ToSet(w.read) \union ToSet(piece)
  BY <1>7, ValuesOfBoth DEF piece
<1>9. ASSUME v.came = {} PROVE Once(v.read) /\ ToSet(v.read) \cap S \subseteq ToSet(new)
  <2>1. Once(w.read) /\ ToSet(w.read) \cap S \subseteq ToSet(old)
    BY <1>5, <1>9
  <2>2. ToSet(w.read) \cap ToSet(piece) = {}
    BY <1>6, <1>7, <2>1
  <2>3. Once(w.read \o piece)
    BY <1>6, <1>7, <2>1, <2>2, OnceInBoth
  <2>4. v.read = w.read \o piece
    BY DEF piece
  <2>5. QED
    BY <1>6, <1>8, <2>1, <2>3, <2>4
<1>10. ASSUME ~ v.gone PROVE ToSet(new) \ v.came \subseteq ToSet(v.read)
  BY <1>5, <1>6, <1>8, <1>10
<1>11. ASSUME v.came = {}, ~ v.gone PROVE v.read = new
  BY <1>2, <1>5, <1>11 DEF piece
<1>12. QED
  BY <1>3, <1>8, <1>9, <1>10, <1>11 DEF WalkOver

-----------------------------------------------------------------------------
\* What the page and its workers keep to: what the pages turned through so far have read.
WalkInv ==
    /\ DOMAIN walk = {"filters", "size", "page", "read", "came", "gone"} /\ walk.page \in Nat
    /\ walk.page > 0 =>
          /\ walk.size \in Nat /\ walk.filters # NoFilters /\ walk.read \in Seq(Nat)
          /\ WalkOver(walk, Matching(walk.filters), table)

EditorsInv ==
    /\ DOMAIN form = {"from", "to", "status", "place", "det", "size"}
    /\ form.size \in Sizes /\ form.status \in {"any", "active", "recovered"}

ViewInv == "state" \in DOMAIN view /\ "page" \in DOMAIN view /\ view.page \in Nat \ {0}

PagesInv == RecordsTypeOK /\ EditorsInv /\ ViewInv /\ WalkInv

RowType == [at : Int, active : BOOLEAN, linked : BOOLEAN, det : Curves]

LEMMA RowsInTime ==
    ASSUME NEW t, NEW n \in Nat, DOMAIN t \subseteq 1..n, \A id \in DOMAIN t : t[id] \in RowType,
           NEW ids \in SUBSET DOMAIN t
    PROVE  TimedIn(t, ids) /\ ids \subseteq 1..n
<1>1. \A i \in DOMAIN t : t[i].at \in Int
  BY DEF RowType
<1>2. IsFiniteSet(1..n)
  BY FirstNumbers
<1>3. IsFiniteSet(ids)
  BY <1>2, FS_Subset
<1>4. QED
  BY <1>1, <1>3 DEF TimedIn

LEMMA TimedRows ==
    ASSUME RecordsTypeOK, NEW ids \in SUBSET DOMAIN table
    PROVE  Timed(ids) /\ TimedIn(table, ids) /\ ids \subseteq 1..lastId
<1>1. DOMAIN table \subseteq 1..lastId /\ lastId \in Nat /\ \A id \in DOMAIN table : table[id] \in RowType
  BY DEF RecordsTypeOK, RowType
<1>2. TimedIn(table, ids) /\ ids \subseteq 1..lastId
  BY <1>1, RowsInTime
<1>3. QED
  BY <1>2 DEF Timed, TimedIn

\* What matches filters that were given depends on the rows and their detectors alone.
LEMMA MatchingStays ==
    ASSUME NEW f, f # NoFilters, UNCHANGED <<table, place>> PROVE Matching(f)' = Matching(f)
BY DEF Matching, Matches, Within, Window, StatusFits, DetectorFits

LEMMA WalkUntouched == ASSUME WalkInv, UNCHANGED <<table, place, walk>> PROVE WalkInv'
<1>1. PICK f : f = walk.filters
  OBVIOUS
<1>2. CASE walk.page > 0
  <2>1. Matching(f)' = Matching(f)
    BY <1>1, <1>2, MatchingStays DEF WalkInv
  <2>2. Matching(walk.filters) = Matching(f) /\ Matching(walk.filters)' = Matching(f)'
    BY <1>1
  <2>3. QED
    BY <1>2, <2>1, <2>2 DEF WalkInv
<1>3. CASE ~ walk.page > 0
  BY <1>3 DEF WalkInv
<1>4. QED
  BY <1>2, <1>3

LEMMA NoWalkInv == ASSUME walk' = NoWalk PROVE WalkInv'
BY DEF WalkInv, NoWalk

\* Rows come, go, or are told apart by another place of their detector.
LEMMA ObservedInv ==
    ASSUME RecordsTypeOK, RecordsTypeOK', WalkInv, Observed,
           \A id \in DOMAIN table \cap DOMAIN table' : table'[id].at = table[id].at
    PROVE  WalkInv'
<1>1. CASE walk.page = 0
  <2>1. walk' = walk
    BY <1>1 DEF Observed
  <2>2. QED
    BY <1>1, <2>1 DEF WalkInv
<1>2. CASE walk.page # 0
  <2>1. PICK f \in {walk.filters} :
            LET came == walk.came \union (Matching(f)' \ Matching(f))
                gone == walk.gone \/ ~ Matching(f) \subseteq Matching(f)'
            IN  walk' = IF gone /\ came # {} THEN NoWalk
                        ELSE [walk EXCEPT !.came = came, !.gone = gone]
    BY <1>2 DEF Observed
  <2>2. PICK S, T : S = Matching(f) /\ T = Matching(f)'
    OBVIOUS
  <2>3. S \in SUBSET DOMAIN table /\ T \in SUBSET DOMAIN table'
    BY <2>2 DEF Matching
  <2> DEFINE came == walk.came \union (T \ S)
             gone == walk.gone \/ ~ S \subseteq T
  <2>4. walk' = IF gone /\ came # {} THEN NoWalk ELSE [walk EXCEPT !.came = came, !.gone = gone]
    BY <2>1, <2>2
  <2> HIDE DEF came, gone
  <2>5. CASE gone /\ came # {}
    BY <2>4, <2>5, NoWalkInv
  <2>6. CASE ~ (gone /\ came # {})
    <3>1. walk' = [walk EXCEPT !.came = came, !.gone = gone]
      BY <2>4, <2>6
    <3>2. /\ DOMAIN walk = {"filters", "size", "page", "read", "came", "gone"} /\ walk.page \in Nat
          /\ walk.page > 0 /\ walk.size \in Nat /\ f # NoFilters /\ walk.read \in Seq(Nat)
          /\ WalkOver(walk, Matching(walk.filters), table)
      BY <1>2, <2>1 DEF WalkInv
    <3>3. /\ DOMAIN walk' = DOMAIN walk /\ walk'.filters = f /\ walk'.size = walk.size
          /\ walk'.page = walk.page /\ walk'.read = walk.read /\ walk'.came = came /\ walk'.gone = gone
      BY <2>1, <3>1, <3>2
    <3>4. TimedIn(table, S) /\ TimedIn(table', T)
      <4>1. TimedIn(table, S)
        BY <2>3, TimedRows
      <4>2. lastId' \in Nat /\ DOMAIN table' \subseteq 1..lastId' /\ \A id \in DOMAIN table' : table'[id] \in RowType
        BY DEF RecordsTypeOK, RowType
      <4>3. TimedIn(table', T)
        BY <2>3, <4>2, RowsInTime
      <4>4. QED
        BY <4>1, <4>3
    <3>5. \A i \in S \cap T : table'[i].at = table[i].at
      BY <2>3
    <3>6. WalkOver(walk, S, table) /\ Matching(walk.filters)' = T
      BY <2>1, <2>2, <3>2, <3>3
    <3>7. walk.page * walk.size \in Nat
      BY <3>2
    <3>8. /\ walk'.came = walk.came \union (T \ S) /\ (walk'.gone <=> (walk.gone \/ ~ S \subseteq T))
          /\ (walk'.came = {} \/ ~ walk'.gone)
      BY <2>6, <3>3 DEF came, gone
    <3>9. WalkOver(walk', T, table')
      BY <3>3, <3>4, <3>5, <3>6, <3>7, <3>8, WalkOverOthers
    <3>10. QED
      BY <3>2, <3>3, <3>6, <3>9 DEF WalkInv
  <2>7. QED
    BY <2>5, <2>6
<1>3. QED
  BY <1>1, <1>2

\* The filters collected are some.
LEMMA Collects == EditorsInv => Collected # NoFilters
<1>1. Collected.status = form.status /\ NoFilters.status = "default"
  BY DEF Collected, NoFilters
<1>2. QED
  BY <1>1 DEF EditorsInv

\* A page that is answered continues the walk, or begins one.
LEMMA WalkOn ==
    ASSUME RecordsTypeOK, EditorsInv, WalkInv, UNCHANGED <<table, place>>,
           NEW page_ \in Nat \ {0}, NEW c, c = Collected, NEW n, n = form.size,
           NEW q, q = Descending(Matching(c)),
           walk' = Walked(c, n, page_, PageOf(q, page_, n))
    PROVE  WalkInv' /\ ToSet(PageOf(q, page_, n)) \subseteq 1..lastId
<1>1. n \in Nat /\ c # NoFilters
  BY Collects, RecordsAssumption DEF EditorsInv
<1>2. PICK S : S = Matching(c)
  OBVIOUS
<1>3. S \in SUBSET DOMAIN table
  BY <1>2 DEF Matching
<1>4. Timed(S) /\ TimedIn(table, S) /\ S \subseteq 1..lastId
  BY <1>3, TimedRows
<1>5. q = Ordered(S, NewerIn(table, S))
  BY <1>2 DEF Descending, NewerIn
<1>6. Holds(q, S) /\ q \in Seq(S)
  <2>1. q = Descending(S)
    BY <1>2
  <2>2. Holds(q, S)
    BY <1>4, <2>1, DescendingHolds
  <2>3. QED
    BY <2>2 DEF Holds
<1>7. PICK m \in Nat : page_ = m + 1
  <2>1. page_ - 1 \in Nat /\ page_ = (page_ - 1) + 1
    OBVIOUS
  <2>2. QED
    BY <2>1
<1> DEFINE piece == PageOf(q, page_, n)
<1>8. piece \in Seq(S)
  <2>1. Continues(S, q, m, n)
    BY <1>1, <1>6, PageContinues
  <2>2. QED
    BY <1>7, <2>1, Zenon DEF Continues
<1>9. ToSet(piece) \subseteq 1..lastId /\ piece \in Seq(Nat)
  <2> HIDE DEF piece
  <2>1. \A x \in DOMAIN piece : piece[x] \in S
    BY ONLY <1>8
  <2>2. ToSet(piece) \subseteq S
    BY <2>1 DEF ToSet
  <2>3. \A i \in S : i \in Nat
    BY <1>4 DEF TimedIn
  <2>4. piece \in Seq(Nat)
    BY ONLY <1>8, <2>3
  <2>5. QED
    BY <1>4, <2>2, <2>4
<1>10. Matching(c)' = S
  BY <1>1, <1>2, MatchingStays
<1>11. CASE page_ = 1
  <2>1. walk' = [filters |-> c, size |-> n, page |-> 1, read |-> piece, came |-> {}, gone |-> FALSE]
    BY <1>11 DEF Walked
  <2>2. piece = Foremost(S, table, 1 * n)
    <3>1. 1 * n = n
      BY <1>1
    <3>2. QED
      BY <1>1, <1>5, <1>11, <3>1, FirstPage DEF Foremost
  <2>3. Once(Foremost(S, table, 1 * n)) /\ 1 * n \in Nat
    <3>1. 1 * n \in Nat
      BY <1>1
    <3>2. QED
      BY <1>4, <3>1, FrontRows
  <2> HIDE DEF piece
  <2>4. /\ DOMAIN walk' = {"filters", "size", "page", "read", "came", "gone"} /\ walk'.page = 1
        /\ walk'.size = n /\ walk'.filters = c /\ walk'.read = piece /\ walk'.came = {} /\ ~ walk'.gone
    BY <2>1
  <2>5. WalkOver(walk', S, table)
    BY <2>2, <2>3, <2>4 DEF WalkOver
  <2>6. Matching(walk.filters)' = Matching(c)'
    BY <2>4
  <2>7. QED
    BY <1>1, <1>9, <1>10, <2>4, <2>5, <2>6 DEF WalkInv, piece
<1>12. CASE page_ # 1 /\ walk.filters = c /\ walk.size = n /\ page_ = walk.page + 1
  <2>1. walk' = [walk EXCEPT !.page = page_, !.read = @ \o piece]
    BY <1>12 DEF Walked
  <2> HIDE DEF piece
  <2>2. /\ DOMAIN walk' = {"filters", "size", "page", "read", "came", "gone"} /\ walk'.page = page_
        /\ walk'.size = n /\ walk'.filters = c /\ walk'.read = walk.read \o piece
        /\ walk'.came = walk.came /\ walk'.gone = walk.gone
    BY <1>12, <2>1 DEF WalkInv
  <2>3. walk.page = m /\ m > 0
    <3>1. walk.page \in Nat
      BY DEF WalkInv
    <3> DEFINE w == walk.page
    <3>2. w \in Nat /\ w + 1 = m + 1 /\ m + 1 # 1
      BY <1>7, <1>12, <3>1
    <3> HIDE DEF w
    <3>3. w = m /\ m > 0
      BY <3>2
    <3>4. QED
      BY <3>3 DEF w
  <2>4. walk.read \in Seq(Nat) /\ WalkOver(walk, S, table)
    <3>1. Matching(walk.filters) = S
      BY <1>2, <1>12
    <3>2. QED
      BY <2>3, <3>1 DEF WalkInv
  <2>5. WalkOver(walk', S, table) /\ walk'.read \in Seq(Nat)
    <3>1. walk'.page = m + 1 /\ walk'.read = walk.read \o PageOf(q, m + 1, n)
      BY <1>7, <2>2 DEF piece
    <3>2. PICK w, v, t : w = walk /\ v = walk' /\ t = table
      OBVIOUS
    <3>3. /\ w.page = m /\ w.size = n /\ w.read \in Seq(Nat) /\ WalkOver(w, S, t)
          /\ v.page = m + 1 /\ v.size = n /\ v.read = w.read \o PageOf(q, m + 1, n)
          /\ v.came = w.came /\ v.gone = w.gone
      BY <1>12, <2>2, <2>3, <2>4, <3>1, <3>2
    <3>4. TimedIn(t, S) /\ q = Ordered(S, NewerIn(t, S))
      BY <1>4, <1>5, <3>2
    <3>5. WalkOver(v, S, t) /\ v.read \in Seq(Nat)
      BY <1>1, <1>6, <3>3, <3>4, WalkOverPage
    <3>6. QED
      BY <3>2, <3>5
  <2>6. Matching(walk.filters)' = Matching(c)'
    BY <2>2
  <2>7. QED
    BY <1>1, <1>9, <1>10, <2>2, <2>5, <2>6 DEF WalkInv, piece
<1>13. CASE page_ # 1 /\ ~ (walk.filters = c /\ walk.size = n /\ page_ = walk.page + 1)
  BY <1>9, <1>13, NoWalkInv DEF Walked
<1>14. QED
  BY <1>11, <1>12, <1>13

\* Whatever becomes of a query.
LEMMA QueryInv ==
    ASSUME PagesInv, UNCHANGED <<kind, clock, table, lastId, place, form>>,
           NEW page_ \in Nat \ {0}, query_records(page_)
    PROVE  PagesInv'
<1>1. RecordsTypeOK /\ EditorsInv /\ ViewInv /\ WalkInv
  BY DEF PagesInv
<1>2. EditorsInv'
  BY <1>1 DEF EditorsInv
<1>3. CASE view' = [view EXCEPT !.state = "error"] /\ UNCHANGED <<asked, bar, selected, walk>>
  <2>1. view'.state = "error" /\ view'.rows = view.rows /\ view'.page = view.page /\ DOMAIN view' = DOMAIN view
    BY <1>1, <1>3 DEF ViewInv
  <2>2. RecordsTypeOK' /\ ViewInv'
    BY <1>1, <1>3, <2>1 DEF RecordsTypeOK, ViewInv
  <2>3. QED
    BY <1>1, <1>2, <1>3, <2>2, WalkUntouched DEF PagesInv
<1>4. CASE _show_error(Collected, page_)
  <2>1. walk' = NoWalk /\ selected' = None
    BY <1>4 DEF _show_error
  <2>2. view'.state = "error" /\ view'.rows = <<>> /\ view'.page = page_ /\ {"state", "page"} \subseteq DOMAIN view'
    BY <1>4 DEF _show_error
  <2>3. ToSet(view'.rows) = {}
    BY <2>2 DEF ToSet
  <2>4. RecordsTypeOK' /\ ViewInv'
    <3>1. lastId \in Nat /\ None \in 0..lastId
      BY <1>1 DEF RecordsTypeOK, None
    <3>2. RecordsTypeOK'
      BY <1>1, <2>1, <2>2, <2>3, <3>1 DEF RecordsTypeOK
    <3>3. ViewInv'
      BY <2>2 DEF ViewInv
    <3>4. QED
      BY <3>2, <3>3
  <2>5. QED
    BY <1>2, <2>1, <2>4, NoWalkInv DEF PagesInv
<1>5. CASE _apply_page(Collected, page_, list_records(Collected, page_, form.size))
  <2>1. PICK c, n, q : c = Collected /\ n = form.size /\ q = Descending(Matching(c))
    OBVIOUS
  <2>2. list_records(Collected, page_, form.size) = PageOf(q, page_, n)
    BY <2>1 DEF list_records
  <2>3. /\ walk' = Walked(c, n, page_, PageOf(q, page_, n)) /\ selected' = None
        /\ view'.rows = PageOf(q, page_, n) /\ view'.page = page_ /\ {"state", "page"} \subseteq DOMAIN view'
        /\ view'.state \in {"ready", "empty"}
    BY <1>5, <2>1, <2>2 DEF _apply_page
  <2>4. WalkInv' /\ ToSet(PageOf(q, page_, n)) \subseteq 1..lastId
    BY <1>1, <2>1, <2>3, WalkOn
  <2>5. RecordsTypeOK' /\ ViewInv'
    <3>1. lastId \in Nat /\ None \in 0..lastId
      BY <1>1 DEF RecordsTypeOK, None
    <3>2. RecordsTypeOK'
      BY <1>1, <2>3, <2>4, <3>1 DEF RecordsTypeOK
    <3>3. ViewInv'
      BY <2>3 DEF ViewInv
    <3>4. QED
      BY <3>2, <3>3
  <2>6. QED
    BY <1>2, <2>4, <2>5 DEF PagesInv
<1>6. QED
  BY <1>3, <1>4, <1>5 DEF query_records

\* A deletion, with its log.
LEMMA WithoutInv ==
    ASSUME RecordsTypeOK, WalkInv, NEW ids \in SUBSET DOMAIN table, Without(ids),
           UNCHANGED <<kind, clock, view, selected>>
    PROVE  RecordsTypeOK' /\ WalkInv'
<1> DEFINE log == [at |-> clock, active |-> FALSE, linked |-> FALSE, det |-> 1]
<1>1. clock \in Int /\ lastId \in Nat /\ DOMAIN table \subseteq 1..lastId /\ \A id \in DOMAIN table : table[id] \in RowType
  BY RecordsAssumption DEF RecordsTypeOK, RowType
<1>2. log \in RowType
  BY <1>1 DEF Curves, RowType
<1> HIDE DEF log
<1>3. place' = place /\ Observed
  BY DEF Without
<1>4. CASE /\ lastId' = lastId + 1
           /\ table' = [id \in (DOMAIN table \ ids) \union {lastId'} |->
                            IF id = lastId' THEN log ELSE table[id]]
  <2>1. lastId' \in Nat /\ lastId' \notin DOMAIN table /\ 1..lastId \subseteq 1..lastId' /\ 0..lastId \subseteq 0..lastId'
    BY <1>1, <1>4
  <2>2. DOMAIN table' = (DOMAIN table \ ids) \union {lastId'} /\ table'[lastId'] = log
    BY <1>4
  <2>3. \A id \in DOMAIN table \ ids : table'[id] = table[id]
    BY <1>4, <2>1
  <2>4. DOMAIN table' \subseteq 1..lastId' /\ \A id \in DOMAIN table' : table'[id] \in RowType
    <3>1. lastId' \in 1..lastId'
      BY <1>1, <1>4, <2>1
    <3>2. DOMAIN table' \subseteq 1..lastId'
      BY <1>1, <2>1, <2>2, <3>1
    <3>3. \A id \in DOMAIN table' : id = lastId' \/ id \in DOMAIN table \ ids
      BY <2>2
    <3>4. QED
      BY <1>1, <1>2, <2>2, <2>3, <3>2, <3>3
  <2>5. RecordsTypeOK'
    BY <1>3, <2>1, <2>4 DEF RecordsTypeOK, RowType
  <2>6. \A id \in DOMAIN table \cap DOMAIN table' : table'[id].at = table[id].at
    BY <2>1, <2>2, <2>3
  <2>7. QED
    BY <1>3, <2>5, <2>6, ObservedInv
<1>5. CASE table' = Restrict(table, DOMAIN table \ ids) /\ UNCHANGED lastId
  <2>1. DOMAIN table' = DOMAIN table \ ids /\ \A id \in DOMAIN table' : table'[id] = table[id]
    BY <1>5 DEF Restrict
  <2>2. RecordsTypeOK'
    BY <1>1, <1>3, <1>5, <2>1 DEF RecordsTypeOK, RowType
  <2>3. QED
    BY <1>3, <2>1, <2>2, ObservedInv
<1>6. QED
  BY <1>4, <1>5 DEF Without, log

\* A row written.
LEMMA NewRowInv == ASSUME RecordsTypeOK, WalkInv, NewRow PROVE RecordsTypeOK' /\ WalkInv'
<1>1. clock \in Int /\ lastId \in Nat /\ DOMAIN table \subseteq 1..lastId /\ \A id \in DOMAIN table : table[id] \in RowType
  BY RecordsAssumption DEF RecordsTypeOK, RowType
<1>2. PICK row \in [at : {clock - 1, clock}, active : {kind = "alarm"},
                    linked : IF kind = "alarm" THEN BOOLEAN ELSE {FALSE},
                    det : IF kind = "running" THEN Curves ELSE {1}] :
          table' = [id \in DOMAIN table \union {lastId'} |-> IF id = lastId' THEN row ELSE table[id]]
  BY DEF NewRow
<1>3. row \in RowType
  <2>1. \A x \in {clock - 1, clock} : x \in Int
    BY <1>1
  <2>2. (IF kind = "alarm" THEN BOOLEAN ELSE {FALSE}) \subseteq BOOLEAN /\ {kind = "alarm"} \subseteq BOOLEAN
    OBVIOUS
  <2>3. (IF kind = "running" THEN Curves ELSE {1}) \subseteq Curves
    BY DEF Curves
  <2>4. QED
    BY <2>1, <2>2, <2>3 DEF RowType
<1>4. lastId' = lastId + 1 /\ UNCHANGED <<kind, clock, place, view, selected>> /\ Observed
  BY DEF NewRow
<1>5. lastId' \in Nat /\ lastId' \notin DOMAIN table /\ 1..lastId \subseteq 1..lastId' /\ 0..lastId \subseteq 0..lastId'
  BY <1>1, <1>4
<1>6. DOMAIN table' = DOMAIN table \union {lastId'} /\ table'[lastId'] = row
  BY <1>2
<1>7. \A id \in DOMAIN table : table'[id] = table[id]
  BY <1>2, <1>5
<1>8. DOMAIN table' \subseteq 1..lastId' /\ \A id \in DOMAIN table' : table'[id] \in RowType
  <2>1. lastId' \in 1..lastId'
    BY <1>1, <1>4, <1>5
  <2>2. DOMAIN table' \subseteq 1..lastId'
    BY <1>1, <1>5, <1>6, <2>1
  <2>3. \A id \in DOMAIN table' : id = lastId' \/ id \in DOMAIN table
    BY <1>6
  <2>4. QED
    BY <1>1, <1>3, <1>6, <1>7, <2>2, <2>3
<1>9. RecordsTypeOK'
  BY <1>4, <1>5, <1>8 DEF RecordsTypeOK, RowType
<1>10. QED
  BY <1>4, <1>7, <1>9, ObservedInv

\* An alarm recovered: its row stays where it is.
LEMMA RecoverInv ==
    ASSUME RecordsTypeOK, WalkInv, NEW id \in DOMAIN table, Recover(id) PROVE RecordsTypeOK' /\ WalkInv'
<1>1. /\ table' = [table EXCEPT ![id].active = FALSE] /\ Observed
      /\ UNCHANGED <<kind, clock, lastId, place, view, selected>>
      /\ \A i \in DOMAIN table : table[i] \in RowType
  BY DEF Recover, RecordsTypeOK, RowType
<1>2. /\ DOMAIN table' = DOMAIN table /\ \A i \in DOMAIN table : i # id => table'[i] = table[i]
      /\ table'[id] \in RowType /\ table'[id].at = table[id].at
  BY <1>1 DEF RowType
<1>3. RecordsTypeOK'
  BY <1>1, <1>2 DEF RecordsTypeOK, RowType
<1>4. \A i \in DOMAIN table \cap DOMAIN table' : table'[i].at = table[i].at
  BY <1>2
<1>5. QED
  BY <1>1, <1>3, <1>4, ObservedInv

\* A detector edited: the rows stay, only what finds them changes.
LEMMA DetectorEditedInv ==
    ASSUME RecordsTypeOK, WalkInv, NEW d \in Curves, DetectorEdited(d) PROVE RecordsTypeOK' /\ WalkInv'
<1>1. PICK p \in Places : place' = [place EXCEPT ![d] = p]
  BY DEF DetectorEdited
<1>2. Observed /\ UNCHANGED <<kind, clock, table, lastId, view, selected>>
  BY DEF DetectorEdited
<1>3. place' \in [Curves -> Places]
  BY <1>1 DEF RecordsTypeOK
<1>4. RecordsTypeOK'
  BY <1>2, <1>3 DEF RecordsTypeOK
<1>5. QED
  BY <1>2, <1>4, ObservedInv

LEMMA LargestSize == Max(Sizes) \in Sizes
BY RecordsAssumption DEF Max

LEMMA RowsStep == ASSUME PagesInv, [RecordsNext]_recVars PROVE PagesInv'
<1>1. RecordsTypeOK /\ EditorsInv /\ ViewInv /\ WalkInv
  BY DEF PagesInv
<1>2. ASSUME UNCHANGED <<form, view>> PROVE EditorsInv' /\ ViewInv'
  BY <1>1, <1>2 DEF EditorsInv, ViewInv
<1>3. ASSUME UNCHANGED <<table, place, walk>> PROVE WalkInv'
  BY <1>1, <1>3, WalkUntouched
<1>4. ASSUME UNCHANGED <<kind, clock, table, lastId, place, form>>, NEW page_ \in Nat \ {0}, query_records(page_)
      PROVE  PagesInv'
  BY <1>4, QueryInv
<1>5. CASE Search \/ _record_changed
  BY <1>4, <1>5 DEF Search, _record_changed, Data
<1>6. CASE Retry
  BY <1>1, <1>4, <1>6 DEF Retry, Data, ViewInv
<1>7. CASE TurnPage
  <2>1. PICK page_ \in {view.page - 1, view.page + 1} : page_ >= 1 /\ query_records(page_)
    BY <1>7 DEF TurnPage
  <2>2. page_ \in Nat \ {0}
    <3> DEFINE p == view.page
    <3>1. p \in Nat /\ p # 0 /\ (page_ = p - 1 \/ page_ = p + 1) /\ page_ >= 1
      BY <1>1, <2>1 DEF ViewInv
    <3> HIDE DEF p
    <3>2. QED
      BY <3>1
  <2>3. QED
    BY <1>4, <1>7, <2>1, <2>2 DEF TurnPage, Data
<1>8. CASE EditForm
  <2>1. UNCHANGED <<kind, clock, table, lastId, place, view, selected, walk>>
    BY <1>8 DEF EditForm, Data
  <2>2. RecordsTypeOK' /\ ViewInv'
    BY <1>1, <2>1 DEF RecordsTypeOK, ViewInv
  <2>3. EditorsInv'
    <3>1. ASSUME NEW f \in Forms, form' = [form EXCEPT !.from = f.from, !.to = f.to, !.status = f.status,
                                                       !.place = f.place, !.det = f.det]
          PROVE  EditorsInv'
      <4>1. f.status \in {"any", "active", "recovered"}
        BY RecordsAssumption
      <4>2. QED
        BY <1>1, <3>1, <4>1 DEF EditorsInv
    <3>2. CASE \E n \in Sizes : form' = [form EXCEPT !.size = n]
      BY <1>1, <3>2 DEF EditorsInv
    <3>3. QED
      BY <1>8, <3>1, <3>2 DEF EditForm
  <2>4. QED
    BY <1>3, <2>1, <2>2, <2>3 DEF PagesInv
<1>9. CASE reset_filters
  <2>1. UNCHANGED <<kind, clock, table, lastId, place, view, selected, walk>>
    BY <1>9 DEF reset_filters, Data
  <2>2. RecordsTypeOK' /\ ViewInv'
    BY <1>1, <2>1 DEF RecordsTypeOK, ViewInv
  <2>3. EditorsInv'
    BY <1>9, LargestSize DEF reset_filters, EditorsInv, NewForm
  <2>4. QED
    BY <1>3, <2>1, <2>2, <2>3 DEF PagesInv
<1>10. CASE _row_selected
  <2>1. UNCHANGED <<kind, clock, table, lastId, place, form, view, walk>> /\ selected' \in Range(view.rows)
    BY <1>10 DEF _row_selected, Data
  <2>2. Range(view.rows) = ToSet(view.rows)
    BY DEF Range, ToSet
  <2>3. ToSet(view.rows) \subseteq 0..lastId
    <3>1. ToSet(view.rows) \subseteq 1..lastId /\ lastId \in Nat
      BY <1>1 DEF RecordsTypeOK
    <3>2. QED
      BY <3>1
  <2>4. RecordsTypeOK'
    BY <1>1, <2>1, <2>2, <2>3 DEF RecordsTypeOK
  <2>5. QED
    BY <1>2, <1>3, <2>1, <2>4 DEF PagesInv
<1>11. CASE delete_selected
  <2>1. Without({bar.id}) /\ {bar.id} \in SUBSET DOMAIN table /\ UNCHANGED <<kind, clock, form, view, selected>>
    BY <1>11 DEF delete_selected
  <2>2. PICK ids : ids = {bar.id}
    OBVIOUS
  <2>3. RecordsTypeOK' /\ WalkInv'
    BY <1>1, <2>1, <2>2, WithoutInv
  <2>4. QED
    BY <1>2, <2>1, <2>3 DEF PagesInv
<1>12. CASE clear_current
  <2>1. Without(Matching(bar.filters)) /\ UNCHANGED <<kind, clock, form, view, selected>>
    BY <1>12 DEF clear_current
  <2>2. PICK ids : ids = Matching(bar.filters)
    OBVIOUS
  <2>3. ids \in SUBSET DOMAIN table
    BY <2>2 DEF Matching
  <2>4. RecordsTypeOK' /\ WalkInv'
    BY <1>1, <2>1, <2>2, <2>3, WithoutInv
  <2>5. QED
    BY <1>2, <2>1, <2>4 DEF PagesInv
<1>13. CASE NewRow
  BY <1>1, <1>2, <1>13, NewRowInv DEF PagesInv, NewRow
<1>14. CASE \E id \in DOMAIN table : Recover(id)
  <2>1. PICK id \in DOMAIN table : Recover(id)
    BY <1>14
  <2>2. UNCHANGED <<form, view>>
    BY <2>1 DEF Recover
  <2>3. QED
    BY <1>1, <1>2, <2>1, <2>2, RecoverInv DEF PagesInv
<1>15. CASE Tick
  <2>1. clock' \in Start..MaxClock
    <3>1. MaxClock \in Nat /\ Start \in Nat
      BY RecordsAssumption, Zenon
    <3>2. clock \in Start..MaxClock
      BY <1>1 DEF RecordsTypeOK
    <3>3. QED
      BY <1>15, <3>1, <3>2 DEF Tick
  <2>2. UNCHANGED <<kind, table, lastId, place, form, view, selected, walk>>
    BY <1>15 DEF Tick
  <2>3. RecordsTypeOK'
    BY <1>1, <2>1, <2>2 DEF RecordsTypeOK
  <2>4. QED
    BY <1>2, <1>3, <2>2, <2>3 DEF PagesInv
<1>16. CASE UNCHANGED recVars
  <2>1. UNCHANGED <<kind, clock, table, lastId, place, form, view, selected, walk>>
    BY <1>16 DEF recVars
  <2>2. RecordsTypeOK'
    BY <1>1, <2>1 DEF RecordsTypeOK
  <2>3. QED
    BY <1>2, <1>3, <2>1, <2>2 DEF PagesInv
<1>17. CASE \E d \in Curves : DetectorEdited(d)
  <2>1. PICK d \in Curves : DetectorEdited(d)
    BY <1>17
  <2>2. UNCHANGED <<form, view>>
    BY <2>1 DEF DetectorEdited
  <2>3. QED
    BY <1>1, <1>2, <2>1, <2>2, DetectorEditedInv DEF PagesInv
<1>18. QED
  BY <1>5, <1>6, <1>7, <1>8, <1>9, <1>10, <1>11, <1>12, <1>13, <1>14, <1>15, <1>16, <1>17
     DEF RecordsNext, Pane, Workers

LEMMA RowsStart == ASSUME RecordsInit PROVE PagesInv
<1>1. Stamps \in Seq(Nat) /\ lastId = Len(Stamps) /\ lastId \in Nat
  BY RecordsAssumption DEF RecordsInit
<1>2. \A id \in DOMAIN Stamps : id \in Nat /\ Stamps[id] \in Nat /\ 1 + (id % 2) \in Curves
  <2>1. \A n \in Nat : n % 2 = 0 \/ n % 2 = 1
    OBVIOUS
  <2>2. \A n \in Nat : 1 + (n % 2) \in Curves
    <3>1. ASSUME NEW n \in Nat PROVE 1 + (n % 2) \in Curves
      <4>1. CASE n % 2 = 0
        BY <4>1 DEF Curves
      <4>2. CASE n % 2 = 1
        BY <4>2 DEF Curves
      <4>3. QED
        BY <2>1, <4>1, <4>2
    <3>2. QED
      BY <3>1
  <2>3. \A id \in DOMAIN Stamps : id \in Nat /\ Stamps[id] \in Nat
    BY <1>1
  <2>4. QED
    BY <2>2, <2>3
<1>3. DOMAIN table = DOMAIN Stamps /\ DOMAIN table \subseteq 1..lastId
  BY <1>1 DEF RecordsInit
<1>4. \A id \in DOMAIN table : table[id] \in [at : Int, active : BOOLEAN, linked : BOOLEAN, det : Curves]
  BY <1>2, <1>3 DEF RecordsInit, Curves
<1>5. view.rows = <<>> /\ view.page = 1 /\ view.state = "ready" /\ {"state", "page"} \subseteq DOMAIN view
  BY DEF RecordsInit
<1>6. ToSet(view.rows) = {}
  BY <1>5 DEF ToSet
<1>7. clock \in Start..MaxClock
  BY RecordsAssumption DEF RecordsInit
<1>8. RecordsTypeOK
  <2>1. place \in [Curves -> Places]
    <3>1. 1..2 = Curves
      BY DEF Curves
    <3>2. QED
      BY <3>1, RecordsAssumption DEF RecordsInit
  <2>2. QED
    BY <1>1, <1>3, <1>4, <1>5, <1>6, <1>7, <2>1 DEF RecordsTypeOK, RecordsInit, None
<1>9. EditorsInv
  BY LargestSize DEF RecordsInit, EditorsInv, NewForm
<1>10. WalkInv
  BY DEF RecordsInit, WalkInv, NoWalk
<1>11. QED
  BY <1>5, <1>8, <1>9, <1>10 DEF PagesInv, ViewInv

-----------------------------------------------------------------------------
LEMMA WalksWhole == ASSUME PagesInv PROVE WalkWhole
<1>1. SUFFICES ASSUME walk.page > 0
      PROVE  LET newest == PageOf(Descending(Matching(walk.filters)), 1, walk.page * walk.size)
             IN  /\ walk.came = {} /\ ~ walk.gone => walk.read = newest
                 /\ ~ walk.gone => ToSet(newest) \ walk.came \subseteq ToSet(walk.read)
                 /\ walk.came = {} => IsInjective(walk.read)
  BY DEF WalkWhole
<1>2. PICK S, m : S = Matching(walk.filters) /\ m = walk.page * walk.size
  OBVIOUS
<1>3. walk.page \in Nat /\ walk.size \in Nat /\ walk.read \in Seq(Nat) /\ WalkOver(walk, S, table)
  BY <1>1, <1>2 DEF PagesInv, WalkInv
<1>4. m \in Nat
  BY <1>2, <1>3
<1>5. PageOf(Descending(S), 1, m) = Foremost(S, table, m)
  <2>1. Descending(S) = Ordered(S, NewerIn(table, S))
    BY DEF Descending, NewerIn
  <2>2. QED
    BY <1>4, <2>1, FirstPage DEF Foremost
<1>6. Once(walk.read) => IsInjective(walk.read)
  BY <1>3 DEF Once, IsInjective
<1>7. QED
  BY <1>2, <1>3, <1>5, <1>6 DEF WalkOver

LEMMA ExportsWhole == ASSUME PagesInv, PaneInv PROVE ExportWhole
<1>1. PICK ids : ids = Matching(bar.filters)
  OBVIOUS
<1>2. PICK q : q = Descending(ids)
  OBVIOUS
<1>3. Timed(ids)
  BY <1>1, TimedRows DEF PagesInv, Matching
<1>4. q \in Seq(ids)
  BY <1>2, <1>3, DescendingHolds DEF Holds
<1>5. Exported(q)[Limit].rows = FirstOf(q, Limit)
  BY <1>4, ExportedRows
<1>6. PageOf(q, 1, Limit) = FirstOf(q, Limit)
  BY FirstPage, RecordsAssumption
<1>7. Matching(view.of) = ids
  BY <1>1 DEF PaneInv
<1>8. QED
  BY <1>1, <1>2, <1>5, <1>6, <1>7 DEF ExportWhole, export_records

LEMMA CurvesWhole == ASSUME PagesInv PROVE CurveWhole
<1> DEFINE Whole(w) ==
        LET ids == UNION {OfDetector(w, d) : d \in Curves}
            curve == query_history(w, <<2, 1>>)
            read == ToSet(curve.points)
        IN  /\ curve.refused <=> Cardinality(ids) > HistoryMax
            /\ ~ curve.refused =>
                  /\ IsInjective(curve.points) /\ Cardinality(read) = Min({CurveSize, Cardinality(ids)})
                  /\ \A i \in read, j \in ids \ read : table[i].at <= table[j].at
<1>1. ASSUME NEW w PROVE Whole(w)
  <2>1. PICK D1, D2 : D1 = OfDetector(w, 1) /\ D2 = OfDetector(w, 2)
    OBVIOUS
  <2>2. Timed(D1) /\ Timed(D2) /\ D1 \in SUBSET DOMAIN table /\ D2 \in SUBSET DOMAIN table
    BY <2>1, TimedRows DEF PagesInv, OfDetector
  <2>3. D1 \cap D2 = {}
    BY <2>1 DEF OfDetector
  <2> DEFINE ids == D1 \union D2
             curve == CurveRows(w, <<2, 1>>)
             answer == query_history(w, <<2, 1>>)
             read == ToSet(answer.points)
  <2>4. UNION {OfDetector(w, d) : d \in Curves} = ids
    BY <2>1 DEF Curves
  <2>5. /\ curve.refused <=> Cardinality(ids) > HistoryMax
        /\ ~ curve.refused => Holds(curve.rows, ids)
    BY <2>1, <2>2, <2>3, CurveOfTwo, Zenon
  <2>6. answer.refused = curve.refused
    BY DEF query_history
  <2>7. Timed(ids)
    BY <2>2, TimedRows DEF PagesInv
  <2>8. ASSUME ~ curve.refused
        PROVE  /\ IsInjective(answer.points) /\ Cardinality(read) = Min({CurveSize, Cardinality(ids)})
               /\ \A i \in read, j \in ids \ read : table[i].at <= table[j].at
    BY <2>5, <2>7, <2>8, CurvePoints, Zenon
  <2> HIDE DEF answer, curve
  <2>9. QED
    BY <2>4, <2>5, <2>6, <2>8 DEF answer
<1>2. QED
  BY <1>1 DEF CurveWhole

\* For every set of rows, filters and sizes of pages and batches: the pages turned
\* through hold the newest rows that match, each once, as long as the same rows match;
\* rows that come to match between two pages make none of the others be missed, and rows
\* that cease to, none be read twice.  An export, of the query the table shows, holds the
\* newest rows up to its limit, and a curve its oldest points or, when there are too
\* many, none.
THEOREM RowsReadOnceAlways == RecordsSpec => []RowsReadOnce
<1>1. RecordsInit => PagesInv /\ PaneInv
  BY RowsStart, PaneStart, RecordsAssumption
<1>2. PagesInv /\ PaneInv /\ [RecordsNext]_recVars => PagesInv' /\ PaneInv'
  BY RowsStep, PaneStep, RecordsAssumption
<1>3. PagesInv /\ PaneInv => RowsReadOnce
  BY WalksWhole, ExportsWhole, CurvesWhole, RecordsAssumption DEF RowsReadOnce, PagesInv
<1>4. QED
  BY <1>1, <1>2, <1>3, PTL DEF RecordsSpec
=============================================================================

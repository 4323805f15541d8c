------------------------------ MODULE MapConfig ------------------------------
(***************************************************************************)
(* Maps and their points (services/map_config_service.py, map_service.py   *)
(* and db/repositories/map_repository.py) beside the device configuration  *)
(* they refer to.  The GUI makes one call at a time; an upload is the only *)
(* one with two stores, the data directory and the database, and a failure *)
(* or the end of the process may come between them.                        *)
(***************************************************************************)
EXTENDS DeviceConfig

CONSTANTS Maps, Points,   \* ids the tables may hand out
          Files,          \* fresh file names (uuid4) uploads may draw
          NoUpload        \* no upload is under way

MapRow   == [file : Files, enabled : BOOLEAN]
PointRow == [map : Maps, detector : Detectors]

ASSUME MapsAssumption == /\ {Free, Gone} \cap (MapRow \union PointRow) = {}
                         /\ NoUpload \notin Files

VARIABLES maps, points,
          files,    \* files[f]: what lies in the maps directory under name f
          upload    \* the file of the upload_map call under way, or NoUpload

mapVars == <<maps, points, files, upload>>
allVars == <<vars, mapVars>>

Idle == upload = NoUpload

-----------------------------------------------------------------------------
MapInit == /\ Init
           /\ maps   = [m \in Maps |-> Free]
           /\ points = [q \in Points |-> Free]
           /\ files  = [f \in Files |-> "none"]
           /\ upload = NoUpload

\* upload_map passes the checks and starts to copy under a fresh name.
BeginUpload(f) ==
    /\ Idle /\ files[f] = "none"
    /\ upload' = f
    /\ files' = [files EXCEPT ![f] = "partial"]
    /\ UNCHANGED <<vars, maps, points>>

CopyMap ==
    /\ ~ Idle /\ files[upload] = "partial"
    /\ files' = [files EXCEPT ![upload] = "whole"]
    /\ UNCHANGED <<vars, maps, points, upload>>

\* The row is inserted once the copy is complete.
Copied == upload # NoUpload /\ files[upload] = "whole"

InsertMap(m, enabled) ==
    /\ Copied /\ maps[m] = Free
    /\ maps' = [maps EXCEPT ![m] = [file |-> upload, enabled |-> enabled]]
    /\ upload' = NoUpload
    /\ UNCHANGED <<vars, points, files>>

\* An error of the copy or of the transaction ends the call, an end of the
\* process ends it too; what was copied stays in the directory.
AbandonUpload ==
    /\ ~ Idle
    /\ upload' = NoUpload
    /\ UNCHANGED <<vars, maps, points, files>>

UpdateMap(m, enabled) ==
    /\ Idle /\ m \in Live(maps)
    /\ maps' = [maps EXCEPT ![m].enabled = enabled]
    /\ UNCHANGED <<vars, points, files, upload>>

\* count_for_map is 0.
MapUnused(m) == \A q \in Live(points) : points[q].map # m

DeleteMap(m) ==
    /\ Idle /\ m \in Live(maps) /\ MapUnused(m)
    /\ maps' = [maps EXCEPT ![m] = Gone]
    /\ UNCHANGED <<vars, points, files, upload>>

\* upsert_for_detector: the live point of the detector, or else a new one.
PointFor(q, d) ==
    IF \E r \in Live(points) : points[r].detector = d
    THEN q \in Live(points) /\ points[q].detector = d
    ELSE points[q] = Free

SaveMapPoint(q, m, d) ==
    /\ Idle /\ m \in Live(maps) /\ d \in Live(detectors)
    /\ PointFor(q, d)
    /\ points' = [points EXCEPT ![q] = [map |-> m, detector |-> d]]
    /\ UNCHANGED <<vars, maps, files, upload>>

DeleteMapPoint(q) ==
    /\ Idle /\ q \in Live(points)
    /\ points' = [points EXCEPT ![q] = Gone]
    /\ UNCHANGED <<vars, maps, files, upload>>

MapNext ==
    \/ \E f \in Files : BeginUpload(f)
    \/ CopyMap \/ AbandonUpload
    \/ \E m \in Maps :
           \/ DeleteMap(m)
           \/ \E enabled \in BOOLEAN : InsertMap(m, enabled) \/ UpdateMap(m, enabled)
    \/ \E q \in Points :
           \/ DeleteMapPoint(q)
           \/ \E m \in Maps, d \in Detectors : SaveMapPoint(q, m, d)

AllNext == \/ Idle /\ ConfigNext /\ UNCHANGED mapVars
           \/ MapNext

MapSpec == MapInit /\ [][AllNext]_allVars
-----------------------------------------------------------------------------
\* The tables hold rows of their columns, an upload has its file.
MapTypeOK == /\ TypeOK
             /\ maps   \in [Maps -> MapRow \union {Free, Gone}]
             /\ points \in [Points -> PointRow \union {Free, Gone}]
             /\ files  \in [Files -> {"none", "partial", "whole"}]
             /\ upload \in Files \union {NoUpload}

(* A live point lies on a live map, and a detector has one live point: a   *)
(* point is moved between maps, left behind by a deleted detector, deleted *)
(* and created again, in any order with the deletion of maps.              *)
PointsOnLiveMaps ==
    /\ \A q \in Live(points) : points[q].map \in Live(maps)
    /\ \A q, r \in Live(points) : points[q].detector = points[r].detector => q = r

(* Whatever fails between the copy and the transaction, a row of maps that *)
(* is shown has its whole file, and no other row's.                        *)
MapsHaveFiles ==
    /\ \A m \in Live(maps) : files[maps[m].file] = "whole"
    /\ \A m, n \in Live(maps) : maps[m].file = maps[n].file => m = n

\* What the poller and the map page look up without a question is there: port, gas
\* type and controller of a live detector, the map of a live point, the file of a live
\* map.  Not more: delete_port asks the detectors only and leaves controllers on the
\* deleted port, delete_detector leaves its point, and delete_object its rules.
LookupsSucceed == MapTypeOK /\ ReferencesLive /\ PointsOnLiveMaps /\ MapsHaveFiles
=============================================================================

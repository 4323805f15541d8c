-------------------------- MODULE DeviceConfigProofs --------------------------
(***************************************************************************)
(* Proofs about the device configuration and the maps, for every set of    *)
(* ids, names, addresses, codes and files: the references between live     *)
(* rows, the uniqueness the database's partial indexes ask for, and the    *)
(* agreement of the maps with their points and their files.                *)
(*                                                                         *)
(* Then the pages: the tables stay sound under them and under restored     *)
(* backups; a page that loaded shows the table, so that a deletion is of   *)
(* the row confirmed; and its form agrees with the row it is saved to in   *)
(* all that was not edited, so that a save keeps the rest.                 *)
(***************************************************************************)
EXTENDS ConfigPages, TLAPS

\* A row of a table is not one of the marks.
LEMMA RowsAreNoMarks ==
    /\ \A row \in PortRow \union ControllerRow \union GasTypeRow \union DetectorRow :
           row \notin {Free, Gone}
    /\ \A row \in MapRow \union PointRow : row \notin {Free, Gone}
BY RowsAssumption, MapsAssumption
-----------------------------------------------------------------------------
\* Every step keeps rows in their tables.
LEMMA ConfigTypes == ASSUME TypeOK, ConfigNext PROVE TypeOK'
<1>1. ASSUME NEW p \in Ports, DeletePort(p) PROVE TypeOK'
  BY <1>1 DEF TypeOK, DeletePort
<1>2. ASSUME NEW p \in Ports, NEW row \in PortRow, SavePort(p, row) PROVE TypeOK'
  BY <1>2 DEF TypeOK, SavePort
<1>3. ASSUME NEW k \in Controllers, DeleteController(k) PROVE TypeOK'
  BY <1>3 DEF TypeOK, DeleteController
<1>4. ASSUME NEW k \in Controllers, NEW row \in ControllerRow, SaveController(k, row)
      PROVE  TypeOK'
  BY <1>4 DEF TypeOK, SaveController
<1>5. ASSUME NEW g \in GasTypes, DeleteGasType(g) PROVE TypeOK'
  BY <1>5 DEF TypeOK, DeleteGasType
<1>6. ASSUME NEW g \in GasTypes, NEW row \in GasTypeRow, SaveGasType(g, row) PROVE TypeOK'
  BY <1>6 DEF TypeOK, SaveGasType
<1>7. ASSUME NEW d \in Detectors, DeleteDetector(d) PROVE TypeOK'
  BY <1>7 DEF TypeOK, DeleteDetector
<1>8. ASSUME NEW d \in Detectors, NEW row \in DetectorRow, SaveDetector(d, row) PROVE TypeOK'
  BY <1>8 DEF TypeOK, SaveDetector
<1>9. ASSUME NEW ids \in SUBSET Detectors, ImportDetectors(ids) PROVE TypeOK'
  BY <1>9 DEF TypeOK, ImportDetectors
<1>10. QED
  BY <1>1, <1>2, <1>3, <1>4, <1>5, <1>6, <1>7, <1>8, <1>9 DEF ConfigNext

\* A row is deleted only when no live detector refers to it, and a detector
\* is saved or imported only with references to live rows.
LEMMA ReferencesStep ==
    ASSUME TypeOK, ReferencesLive, ConfigNext PROVE ReferencesLive'
<1>1. ASSUME NEW p \in Ports, DeletePort(p) PROVE ReferencesLive'
  BY <1>1 DEF TypeOK, DeletePort, PortUnused, ReferencesLive, Live
<1>2. ASSUME NEW p \in Ports, NEW row \in PortRow, SavePort(p, row) PROVE ReferencesLive'
  BY <1>2, RowsAreNoMarks DEF TypeOK, SavePort, ReferencesLive, Live
<1>3. ASSUME NEW k \in Controllers, DeleteController(k) PROVE ReferencesLive'
  BY <1>3 DEF TypeOK, DeleteController, ControllerUnused, ReferencesLive, Live
<1>4. ASSUME NEW k \in Controllers, NEW row \in ControllerRow, SaveController(k, row)
      PROVE  ReferencesLive'
  BY <1>4, RowsAreNoMarks DEF TypeOK, SaveController, ReferencesLive, Live
<1>5. ASSUME NEW g \in GasTypes, DeleteGasType(g) PROVE ReferencesLive'
  BY <1>5 DEF TypeOK, DeleteGasType, GasTypeUnused, ReferencesLive, Live
<1>6. ASSUME NEW g \in GasTypes, NEW row \in GasTypeRow, SaveGasType(g, row)
      PROVE  ReferencesLive'
  BY <1>6, RowsAreNoMarks DEF TypeOK, SaveGasType, ReferencesLive, Live
<1>7. ASSUME NEW d \in Detectors, DeleteDetector(d) PROVE ReferencesLive'
  BY <1>7 DEF TypeOK, DeleteDetector, ReferencesLive, Live
<1>8. ASSUME NEW d \in Detectors, NEW row \in DetectorRow, SaveDetector(d, row)
      PROVE  ReferencesLive'
  BY <1>8 DEF TypeOK, SaveDetector, ValidDetector, ReferencesLive, Live
<1>9. ASSUME NEW ids \in SUBSET Detectors, ImportDetectors(ids) PROVE ReferencesLive'
  <2>1. PICK new \in [ids -> {row \in DetectorRow : ValidDetector(row)}] :
            detectors' = [d \in Detectors |-> IF d \in ids THEN new[d] ELSE detectors[d]]
    BY <1>9 DEF ImportDetectors
  <2>2. UNCHANGED <<ports, controllers, gasTypes>>
    BY <1>9 DEF ImportDetectors
  <2>3. \A d \in Live(detectors)' :
            IF d \in ids THEN ValidDetector(detectors'[d])
            ELSE d \in Live(detectors) /\ detectors'[d] = detectors[d]
    BY <2>1 DEF TypeOK, Live
  <2>4. QED
    BY <2>2, <2>3 DEF ReferencesLive, ValidDetector, Live
<1>10. QED
  BY <1>1, <1>2, <1>3, <1>4, <1>5, <1>6, <1>7, <1>8, <1>9 DEF ConfigNext

\* A row is saved or imported only with a key that no other live row has.
LEMMA UniqueStep ==
    ASSUME TypeOK, UniqueAmongLive, ConfigNext PROVE UniqueAmongLive'
<1>1. ASSUME NEW p \in Ports, DeletePort(p) PROVE UniqueAmongLive'
  BY <1>1 DEF TypeOK, DeletePort, UniqueAmongLive, Live
<1>2. ASSUME NEW p \in Ports, NEW row \in PortRow, SavePort(p, row) PROVE UniqueAmongLive'
  BY <1>2 DEF TypeOK, SavePort, NameTaken, UniqueAmongLive, Live
<1>3. ASSUME NEW k \in Controllers, DeleteController(k) PROVE UniqueAmongLive'
  BY <1>3 DEF TypeOK, DeleteController, UniqueAmongLive, Live
<1>4. ASSUME NEW k \in Controllers, NEW row \in ControllerRow, SaveController(k, row)
      PROVE  UniqueAmongLive'
  BY <1>4 DEF TypeOK, SaveController, AddressTaken, UniqueAmongLive, Live
<1>5. ASSUME NEW g \in GasTypes, DeleteGasType(g) PROVE UniqueAmongLive'
  BY <1>5 DEF TypeOK, DeleteGasType, UniqueAmongLive, Live
<1>6. ASSUME NEW g \in GasTypes, NEW row \in GasTypeRow, SaveGasType(g, row)
      PROVE  UniqueAmongLive'
  BY <1>6 DEF TypeOK, SaveGasType, NameTaken, UniqueAmongLive, Live
<1>7. ASSUME NEW d \in Detectors, DeleteDetector(d) PROVE UniqueAmongLive'
  BY <1>7 DEF TypeOK, DeleteDetector, UniqueAmongLive, Live
<1>8. ASSUME NEW d \in Detectors, NEW row \in DetectorRow, SaveDetector(d, row)
      PROVE  UniqueAmongLive'
  BY <1>8 DEF TypeOK, SaveDetector, CodeTaken, UniqueAmongLive, Live
<1>9. ASSUME NEW ids \in SUBSET Detectors, ImportDetectors(ids) PROVE UniqueAmongLive'
  <2>1. PICK new \in [ids -> {row \in DetectorRow : ValidDetector(row)}] :
            /\ Importable(new)
            /\ detectors' = [d \in Detectors |-> IF d \in ids THEN new[d] ELSE detectors[d]]
    BY <1>9 DEF ImportDetectors
  <2>2. UNCHANGED <<ports, controllers, gasTypes>>
    BY <1>9 DEF ImportDetectors
  <2>3. /\ \A d \in ids : detectors'[d] = new[d]
        /\ \A d \in Live(detectors)' \ ids : d \in Live(detectors) /\ detectors'[d] = detectors[d]
        /\ Live(detectors) \cap ids = {}
    BY <1>9, <2>1 DEF TypeOK, Live, ImportDetectors
  <2>4. /\ \A d \in ids : \A e \in Live(detectors) : new[d].code # detectors[e].code
        /\ \A d, e \in ids : new[d].code = new[e].code => d = e
    BY <2>1, <2>3 DEF Importable, CodeTaken
  <2>5. \A d, e \in Live(detectors)' : detectors'[d].code = detectors'[e].code => d = e
    BY <2>3, <2>4 DEF UniqueAmongLive
  <2>6. QED
    BY <2>2, <2>5 DEF UniqueAmongLive, Live
<1>10. QED
  BY <1>1, <1>2, <1>3, <1>4, <1>5, <1>6, <1>7, <1>8, <1>9 DEF ConfigNext
-----------------------------------------------------------------------------
\* The inductive invariant of the maps' files: a file being uploaded is not
\* yet the file of a row.
UploadIsNew == ~ Idle => \A m \in Live(maps) : maps[m].file # upload

IInv == /\ MapTypeOK /\ ReferencesLive /\ UniqueAmongLive
        /\ PointsOnLiveMaps /\ MapsHaveFiles /\ UploadIsNew

\* The steps of the maps keep rows in their tables.
LEMMA MapTypes == ASSUME MapTypeOK, MapNext PROVE MapTypeOK'
<1>1. TypeOK'
  BY DEF MapTypeOK, TypeOK, MapNext, BeginUpload, CopyMap, AbandonUpload, DeleteMap,
         InsertMap, UpdateMap, DeleteMapPoint, SaveMapPoint, vars
<1>2. ASSUME NEW f \in Files, BeginUpload(f) PROVE MapTypeOK'
  BY <1>1, <1>2 DEF MapTypeOK, BeginUpload
<1>3. CASE CopyMap
  BY <1>1, <1>3 DEF MapTypeOK, CopyMap
<1>4. CASE AbandonUpload
  BY <1>1, <1>4 DEF MapTypeOK, AbandonUpload
<1>5. ASSUME NEW m \in Maps, DeleteMap(m) PROVE MapTypeOK'
  BY <1>1, <1>5 DEF MapTypeOK, DeleteMap
<1>6. ASSUME NEW m \in Maps, NEW enabled \in BOOLEAN, InsertMap(m, enabled) PROVE MapTypeOK'
  BY <1>1, <1>6 DEF MapTypeOK, InsertMap, Copied, MapRow
<1>7. ASSUME NEW m \in Maps, NEW enabled \in BOOLEAN, UpdateMap(m, enabled) PROVE MapTypeOK'
  BY <1>1, <1>7 DEF MapTypeOK, UpdateMap, MapRow, Live
<1>8. ASSUME NEW q \in Points, DeleteMapPoint(q) PROVE MapTypeOK'
  BY <1>1, <1>8 DEF MapTypeOK, DeleteMapPoint
<1>9. ASSUME NEW q \in Points, NEW m \in Maps, NEW d \in Detectors, SaveMapPoint(q, m, d)
      PROVE  MapTypeOK'
  BY <1>1, <1>9 DEF MapTypeOK, SaveMapPoint, PointRow
<1>10. QED
  BY <1>2, <1>3, <1>4, <1>5, <1>6, <1>7, <1>8, <1>9 DEF MapNext

\* The steps of the maps keep points on live maps and files with their rows.
LEMMA MapStep ==
    ASSUME IInv, MapNext PROVE PointsOnLiveMaps' /\ MapsHaveFiles' /\ UploadIsNew'
<1> DEFINE Goal == PointsOnLiveMaps /\ MapsHaveFiles /\ UploadIsNew
<1> USE DEF IInv, MapTypeOK
<1>2. ASSUME NEW f \in Files, BeginUpload(f) PROVE Goal'
  BY <1>2 DEF BeginUpload, Idle, PointsOnLiveMaps, MapsHaveFiles, UploadIsNew, Live
<1>3. CASE CopyMap
  BY <1>3 DEF CopyMap, Idle, PointsOnLiveMaps, MapsHaveFiles, UploadIsNew, Live
<1>4. CASE AbandonUpload
  BY <1>4 DEF AbandonUpload, Idle, PointsOnLiveMaps, MapsHaveFiles, UploadIsNew, Live
<1>5. ASSUME NEW m \in Maps, DeleteMap(m) PROVE Goal'
  BY <1>5 DEF DeleteMap, MapUnused, Idle, PointsOnLiveMaps, MapsHaveFiles, UploadIsNew, Live
<1>6. ASSUME NEW m \in Maps, NEW enabled \in BOOLEAN, InsertMap(m, enabled) PROVE Goal'
  BY <1>6, RowsAreNoMarks
     DEF InsertMap, Copied, Idle, PointsOnLiveMaps, MapsHaveFiles, UploadIsNew, Live, MapRow
<1>7. ASSUME NEW m \in Maps, NEW enabled \in BOOLEAN, UpdateMap(m, enabled) PROVE Goal'
  BY <1>7, RowsAreNoMarks
     DEF UpdateMap, Idle, PointsOnLiveMaps, MapsHaveFiles, UploadIsNew, Live, MapRow
<1>8. ASSUME NEW q \in Points, DeleteMapPoint(q) PROVE Goal'
  BY <1>8 DEF DeleteMapPoint, Idle, PointsOnLiveMaps, MapsHaveFiles, UploadIsNew, Live
<1>9. ASSUME NEW q \in Points, NEW m \in Maps, NEW d \in Detectors, SaveMapPoint(q, m, d)
      PROVE  Goal'
  BY <1>9 DEF SaveMapPoint, PointFor, Idle, PointsOnLiveMaps, MapsHaveFiles, UploadIsNew,
              Live, PointRow
<1>10. QED
  BY <1>2, <1>3, <1>4, <1>5, <1>6, <1>7, <1>8, <1>9 DEF MapNext

\* A step of the configuration leaves the maps as they are, and conversely.
LEMMA StepsInvariant == ASSUME IInv, [AllNext]_allVars PROVE IInv'
<1>1. CASE ConfigNext /\ UNCHANGED mapVars
  <2>1. TypeOK' /\ ReferencesLive' /\ UniqueAmongLive'
    BY <1>1, ConfigTypes, ReferencesStep, UniqueStep DEF IInv, MapTypeOK
  <2>2. MapTypeOK'
    BY <1>1, <2>1 DEF IInv, MapTypeOK, mapVars
  <2>3. PointsOnLiveMaps' /\ MapsHaveFiles' /\ UploadIsNew'
    BY <1>1 DEF IInv, PointsOnLiveMaps, MapsHaveFiles, UploadIsNew, Idle, Live, mapVars
  <2>4. QED
    BY <2>1, <2>2, <2>3 DEF IInv
<1>2. CASE MapNext
  <2>1. UNCHANGED vars
    BY <1>2 DEF MapNext, BeginUpload, CopyMap, AbandonUpload, DeleteMap,
                InsertMap, UpdateMap, DeleteMapPoint, SaveMapPoint
  <2>2. ReferencesLive' /\ UniqueAmongLive'
    BY <2>1 DEF IInv, ReferencesLive, UniqueAmongLive, Live, vars
  <2>3. MapTypeOK'
    BY <1>2, MapTypes DEF IInv
  <2>4. QED
    BY <1>2, <2>2, <2>3, MapStep DEF IInv
<1>3. CASE UNCHANGED allVars
  BY <1>3 DEF IInv, MapTypeOK, TypeOK, ReferencesLive, UniqueAmongLive, PointsOnLiveMaps,
              MapsHaveFiles, UploadIsNew, Idle, Live, allVars, vars, mapVars
<1>4. QED
  BY <1>1, <1>2, <1>3 DEF AllNext

\* Type correctness, the references, the uniqueness and the maps, together.
THEOREM ConfigInvariance == MapSpec => []IInv
<1>1. MapInit => IInv
  BY DEF MapInit, Init, IInv, MapTypeOK, TypeOK, ReferencesLive, UniqueAmongLive,
         PointsOnLiveMaps, MapsHaveFiles, UploadIsNew, Idle, Live
<1>2. IInv /\ [AllNext]_allVars => IInv'
  BY StepsInvariant
<1>3. QED
  BY <1>1, <1>2, PTL DEF MapSpec

\* Rows stay in their tables (device_config_service.py, map_config_service.py).
THEOREM ConfigTypeCorrect == MapSpec => []MapTypeOK
<1>1. IInv => MapTypeOK
  BY DEF IInv
<1>2. QED
  BY <1>1, ConfigInvariance, PTL

\* No delete, save, import or map operation leaves a live detector that
\* refers to a deleted port, gas type or controller.
THEOREM ReferencesLiveHolds == MapSpec => []ReferencesLive
<1>1. IInv => ReferencesLive
  BY DEF IInv
<1>2. QED
  BY <1>1, ConfigInvariance, PTL

\* The service's own checks make the partial unique indexes redundant.
THEOREM UniqueAmongLiveHolds == MapSpec => []UniqueAmongLive
<1>1. IInv => UniqueAmongLive
  BY DEF IInv
<1>2. QED
  BY <1>1, ConfigInvariance, PTL

\* A live point lies on a live map and is its detector's only one.
THEOREM PointsOnLiveMapsHolds == MapSpec => []PointsOnLiveMaps
<1>1. IInv => PointsOnLiveMaps
  BY DEF IInv
<1>2. QED
  BY <1>1, ConfigInvariance, PTL

\* A map that is shown has its whole file, whenever an upload was cut short.
THEOREM MapsHaveFilesHolds == MapSpec => []MapsHaveFiles
<1>1. IInv => MapsHaveFiles
  BY DEF IInv
<1>2. QED
  BY <1>1, ConfigInvariance, PTL

\* Port, gas type and controller of every live detector, the map of every live point
\* and the file of every live map are there: the parts together.
THEOREM LookupsSucceedHolds == MapSpec => []LookupsSucceed
  BY ConfigTypeCorrect, ReferencesLiveHolds, PointsOnLiveMapsHolds, MapsHaveFilesHolds, PTL DEF LookupsSucceed
-----------------------------------------------------------------------------
\* What save_controller does not ask: a controller changes its port only
\* while no live detector is behind it.
ControllersStay ==
    \A k \in Live(controllers) \cap Live(controllers)' :
        controllers'[k].port # controllers[k].port => ControllerUnused(k)

OnOwnPort ==
    \A d \in Live(detectors) :
        detectors[d].controller # NoController =>
            controllers[detectors[d].controller].port = detectors[d].port

\* Saving and importing detectors, and moving idle controllers, keep every
\* detector on the port of its controller.
LEMMA OnOwnPortStep ==
    ASSUME TypeOK, ReferencesLive, OnOwnPort, ConfigNext, ControllersStay
    PROVE  OnOwnPort'
<1>1. ASSUME UNCHANGED <<controllers, detectors>> PROVE OnOwnPort'
  BY <1>1 DEF OnOwnPort, Live
<1>2. ASSUME NEW k \in Controllers, DeleteController(k) PROVE OnOwnPort'
  BY <1>2 DEF TypeOK, DeleteController, ControllerUnused, OnOwnPort, Live
<1>3. ASSUME NEW k \in Controllers, NEW row \in ControllerRow, SaveController(k, row)
      PROVE  OnOwnPort'
  <2>1. row \notin {Free, Gone}
    BY RowsAreNoMarks
  <2>2. /\ UNCHANGED detectors
        /\ controllers'[k] = row /\ k \in Live(controllers)'
        /\ \A j \in Controllers \ {k} : controllers'[j] = controllers[j]
    BY <1>3, <2>1 DEF TypeOK, SaveController, Live
  <2>3. ASSUME NEW d \in Live(detectors), detectors[d].controller = k
        PROVE  controllers'[k].port = controllers[k].port
    <3>1. k \in Live(controllers)
      BY <1>3, <2>3, RowsAssumption DEF ReferencesLive
    <3>2. ~ ControllerUnused(k)
      BY <2>3 DEF ControllerUnused
    <3>3. QED
      BY <2>2, <3>1, <3>2 DEF ControllersStay
  <2>4. \A d \in Live(detectors) : detectors[d].controller \in Controllers \union {NoController}
    BY DEF TypeOK, Live, DetectorRow
  <2>5. QED
    BY <2>2, <2>3, <2>4 DEF OnOwnPort, Live
<1>4. ASSUME NEW d \in Detectors, DeleteDetector(d) PROVE OnOwnPort'
  BY <1>4 DEF TypeOK, DeleteDetector, OnOwnPort, Live
<1>5. ASSUME NEW d \in Detectors, NEW row \in DetectorRow, SaveDetector(d, row)
      PROVE  OnOwnPort'
  BY <1>5 DEF TypeOK, SaveDetector, ValidDetector, OnOwnPort, Live
<1>6. ASSUME NEW ids \in SUBSET Detectors, ImportDetectors(ids) PROVE OnOwnPort'
  <2>1. PICK new \in [ids -> {row \in DetectorRow : ValidDetector(row)}] :
            detectors' = [d \in Detectors |-> IF d \in ids THEN new[d] ELSE detectors[d]]
    BY <1>6 DEF ImportDetectors
  <2>2. UNCHANGED controllers
    BY <1>6 DEF ImportDetectors
  <2>3. \A d \in Live(detectors)' :
            IF d \in ids THEN ValidDetector(detectors'[d])
            ELSE d \in Live(detectors) /\ detectors'[d] = detectors[d]
    BY <2>1 DEF TypeOK, Live
  <2>4. QED
    BY <2>2, <2>3 DEF OnOwnPort, ValidDetector
<1>7. QED
  BY <1>1, <1>2, <1>3, <1>4, <1>5, <1>6
     DEF ConfigNext, DeletePort, SavePort, DeleteGasType, SaveGasType

\* If no controller is moved from under its detectors, a bus address belongs
\* to one controller: moving is the only operation that can break this.
THEOREM BusAddressNeedsOneGuard ==
    MapSpec /\ [][ControllersStay]_allVars => []BusAddressIsOneController
<1>1. MapInit => OnOwnPort
  BY DEF MapInit, Init, OnOwnPort, Live
<1>2. IInv /\ OnOwnPort /\ [AllNext]_allVars /\ [ControllersStay]_allVars => OnOwnPort'
  <2> SUFFICES ASSUME IInv, OnOwnPort, [AllNext]_allVars, [ControllersStay]_allVars
               PROVE  OnOwnPort'
    OBVIOUS
  <2>1. CASE ConfigNext /\ ControllersStay
    BY <2>1, OnOwnPortStep DEF IInv, MapTypeOK
  <2>2. CASE UNCHANGED vars
    BY <2>2 DEF OnOwnPort, Live, vars
  <2>3. MapNext => UNCHANGED vars
    BY DEF MapNext, BeginUpload, CopyMap, AbandonUpload, DeleteMap,
           InsertMap, UpdateMap, DeleteMapPoint, SaveMapPoint
  <2>4. QED
    BY <2>1, <2>2, <2>3 DEF AllNext, allVars
<1>3. IInv /\ OnOwnPort => BusAddressIsOneController
  <2> SUFFICES ASSUME IInv, OnOwnPort, NEW d \in Polled, NEW e \in Polled,
                      NoController \notin {detectors[d].controller, detectors[e].controller},
                      BusAddress(d) = BusAddress(e)
               PROVE  detectors[d].controller = detectors[e].controller
    BY DEF BusAddressIsOneController
  <2> DEFINE j == detectors[d].controller
             k == detectors[e].controller
  <2>1. j \in Live(controllers) /\ k \in Live(controllers)
    BY DEF Polled
  <2>2. controllers[j].port = detectors[d].port /\ controllers[k].port = detectors[e].port
    BY DEF OnOwnPort, Polled
  <2>3. detectors[d].port = detectors[e].port /\ controllers[j].address = controllers[k].address
    BY DEF BusAddress
  <2>4. QED
    BY <2>1, <2>2, <2>3 DEF IInv, UniqueAmongLive
<1>4. QED
  BY <1>1, <1>2, <1>3, ConfigInvariance, PTL DEF MapSpec
-----------------------------------------------------------------------------
(***************************************************************************)
(* ConfigPages: what the pages show, and what they make of it.             *)
(***************************************************************************)
Backup == INSTANCE DeviceConfig WITH
    ports <- backup.ports, controllers <- backup.controllers,
    gasTypes <- backup.gas_types, detectors <- backup.detectors

IdsOf  == [ports |-> Ports, controllers |-> Controllers, gas_types |-> GasTypes,
           detectors |-> Detectors, objects |-> Objects, rules |-> Rules]
Fields == [ports |-> {"name"}, controllers |-> {"port", "address"}, gas_types |-> {"name"},
           detectors |-> {"port", "controller", "gas", "code"},
           objects |-> {"name"}, rules |-> {"object"}]
Kinds  == {"ports", "controllers", "gas_types", "detectors", "objects", "rules"}

LinkageOK(o, r) == /\ o \in [Objects -> ObjectRow \union {Free, Gone}]
                   /\ r \in [Rules -> RuleRow \union {Free, Gone}]

\* The configuration in the tables, and the one in the backup.
TablesInv ==
    /\ IInv /\ LinkageOK(objects, rules)
    /\ DOMAIN rest = Ports \union Controllers \union GasTypes \union Detectors \union Objects \union Rules
    /\ Backup!TypeOK /\ Backup!ReferencesLive /\ Backup!UniqueAmongLive
    /\ LinkageOK(backup.objects, backup.rules)
    /\ page \in Kinds \union {"none"}
    /\ page # "none" => Idle /\ \A i \in IdsOf[page] : backup[page][i] # Gone

\* After a load that went well the page shows the table, and its boxes offer what
\* the rows refer to.
ShownInv ==
    /\ loaded \subseteq {"failed", "restored"} /\ DOMAIN shown \subseteq IdsOf[page]
    /\ \A i \in DOMAIN shown : DOMAIN shown[i].row = Fields[page]
    /\ loaded = {} => \A i \in DOMAIN shown :
           /\ i \in Live(Table) /\ shown[i] = Full(Table, i)
           /\ page = "detectors" => detectors[i].gas \in offers.gas

\* The fields in which the form may differ from the row it is saved to, after what
\* was edited and what happened since the row was chosen.
Differing(edited, happened) ==
    edited \union (IF "reloaded" \in happened THEN {"rest"} ELSE {})
           \union (IF "dangling" \in happened THEN {"port", "controller", "object"} ELSE {})

\* In the others it agrees with it, or shows an empty box, which is not saved.
Agrees(shows, row, other, differing) ==
    /\ \A f \in Fields[page] \ differing :
           \/ shows.row[f] = row[f]
           \/ f \in {"port", "gas", "object"} /\ shows.row[f] = NoChoice
    /\ "rest" \notin differing => shows.rest = other

Shaped(shows) == DOMAIN shows = {"row", "rest"} /\ DOMAIN shows.row = Fields[page]

FormInv ==
    /\ Shaped(form)
    /\ picked # None => picked \in IdsOf[page]
    /\ picked # None /\ "restored" \notin since =>
           /\ Table[picked] # Free
           /\ picked \in Live(Table) =>
                 Agrees(form, Table[picked], rest[picked], Differing(touched, since))

PagesInv == TablesInv /\ (page # "none" => ShownInv /\ FormInv)

LEMMA ShapesOfRows ==
    ASSUME NEW kind \in Kinds
    PROVE  \A row \in RowTypes[kind] : DOMAIN row = Fields[kind] /\ row \notin {Free, Gone}
<1>1. \A row \in ObjectRow \union RuleRow : row \notin {Free, Gone}
  BY PagesAssumption
<1>2. CASE kind = "ports"
  BY <1>2, RowsAreNoMarks DEF RowTypes, Fields, PortRow
<1>3. CASE kind = "controllers"
  BY <1>3, RowsAreNoMarks DEF RowTypes, Fields, ControllerRow
<1>4. CASE kind = "gas_types"
  BY <1>4, RowsAreNoMarks DEF RowTypes, Fields, GasTypeRow
<1>5. CASE kind = "detectors"
  BY <1>5, RowsAreNoMarks DEF RowTypes, Fields, DetectorRow
<1>6. CASE kind = "objects"
  BY <1>1, <1>6 DEF RowTypes, Fields, ObjectRow
<1>7. CASE kind = "rules"
  BY <1>1, <1>7 DEF RowTypes, Fields, RuleRow
<1>8. QED
  BY <1>2, <1>3, <1>4, <1>5, <1>6, <1>7 DEF Kinds

\* The table of the page is a table of its rows.
LEMMA TableTyped ==
    ASSUME TablesInv, page \in Kinds
    PROVE  Table \in [IdsOf[page] -> RowTypes[page] \union {Free, Gone}]
<1>1. TypeOK /\ LinkageOK(objects, rules)
  BY DEF TablesInv, IInv, MapTypeOK
<1>2. QED
  BY <1>1 DEF Kinds, Table, TableOf, IdsOf, RowTypes, TypeOK, LinkageOK

LEMMA PlacesOfRest ==
    ASSUME TablesInv, page \in Kinds PROVE IdsOf[page] \subseteq DOMAIN rest
BY DEF TablesInv, Kinds, IdsOf

\* What a step of the device configuration leaves of the maps.
LEMMA ConfigKeepsTables ==
    ASSUME TablesInv, page \in Kinds, ConfigNext, UNCHANGED <<mapVars, linkVars, page, backup>>,
           DOMAIN rest' = DOMAIN rest
    PROVE  TablesInv'
<1>1. IInv /\ Idle
  BY DEF TablesInv, Kinds
<1>2. IInv'
  BY <1>1, StepsInvariant DEF AllNext
<1>3. UNCHANGED <<objects, rules, upload, page, backup>>
  BY DEF linkVars, mapVars
<1>4. Backup!TypeOK' /\ Backup!ReferencesLive' /\ Backup!UniqueAmongLive'
  BY <1>3 DEF TablesInv, Backup!TypeOK, Backup!ReferencesLive, Backup!UniqueAmongLive, Backup!Live
<1>5. QED
  BY <1>2, <1>3, <1>4 DEF TablesInv, Idle, LinkageOK

\* The tables of the linkage are none of the others.
LEMMA LinkageKeepsTables ==
    ASSUME TablesInv, UNCHANGED <<vars, mapVars, page, backup>>, DOMAIN rest' = DOMAIN rest,
           LinkageOK(objects', rules')
    PROVE  TablesInv'
<1>1. UNCHANGED <<ports, controllers, gasTypes, detectors, maps, points, files, upload, page, backup>>
  BY DEF vars, mapVars
<1>2. IInv'
  BY <1>1, StepsInvariant DEF TablesInv, allVars, vars, mapVars
<1>3. Backup!TypeOK' /\ Backup!ReferencesLive' /\ Backup!UniqueAmongLive'
  BY <1>1 DEF TablesInv, Backup!TypeOK, Backup!ReferencesLive, Backup!UniqueAmongLive, Backup!Live
<1>4. QED
  BY <1>1, <1>2, <1>3 DEF TablesInv, Idle, LinkageOK

\* A save writes one row of the page's table, a deletion marks one.
LEMMA SaveWrites ==
    ASSUME TablesInv, page \in Kinds, NEW i \in IdsOf[page], NEW row \in RowTypes[page],
           Saves(i, row), UNCHANGED <<mapVars, page, backup>>, DOMAIN rest' = DOMAIN rest
    PROVE  TablesInv' /\ Table' = [Table EXCEPT ![i] = row]
<1>1. page' = page
  OBVIOUS
<1>2. CASE page = "ports"
  <2>1. SavePort(i, row) /\ UNCHANGED linkVars /\ i \in Ports /\ row \in PortRow
    BY <1>2 DEF Saves, IdsOf, RowTypes
  <2>2. ConfigNext
    BY <2>1 DEF ConfigNext
  <2>3. TablesInv'
    BY <2>1, <2>2, ConfigKeepsTables
  <2>4. QED
    BY <1>1, <1>2, <2>1, <2>3 DEF SavePort, Table, TableOf
<1>3. CASE page = "controllers"
  <2>1. SaveController(i, row) /\ UNCHANGED linkVars /\ i \in Controllers /\ row \in ControllerRow
    BY <1>3 DEF Saves, IdsOf, RowTypes
  <2>2. ConfigNext
    BY <2>1 DEF ConfigNext
  <2>3. TablesInv'
    BY <2>1, <2>2, ConfigKeepsTables
  <2>4. QED
    BY <1>1, <1>3, <2>1, <2>3 DEF SaveController, Table, TableOf
<1>4. CASE page = "gas_types"
  <2>1. SaveGasType(i, row) /\ UNCHANGED linkVars /\ i \in GasTypes /\ row \in GasTypeRow
    BY <1>4 DEF Saves, IdsOf, RowTypes
  <2>2. ConfigNext
    BY <2>1 DEF ConfigNext
  <2>3. TablesInv'
    BY <2>1, <2>2, ConfigKeepsTables
  <2>4. QED
    BY <1>1, <1>4, <2>1, <2>3 DEF SaveGasType, Table, TableOf
<1>5. CASE page = "detectors"
  <2>1. SaveDetector(i, row) /\ UNCHANGED linkVars /\ i \in Detectors /\ row \in DetectorRow
    BY <1>5 DEF Saves, IdsOf, RowTypes
  <2>2. ConfigNext
    BY <2>1 DEF ConfigNext
  <2>3. TablesInv'
    BY <2>1, <2>2, ConfigKeepsTables
  <2>4. QED
    BY <1>1, <1>5, <2>1, <2>3 DEF SaveDetector, Table, TableOf
<1>6. CASE page = "objects"
  <2>1. SaveObject(i, row) /\ i \in Objects /\ row \in ObjectRow
    BY <1>6 DEF Saves, IdsOf, RowTypes
  <2>2. UNCHANGED <<vars, rules>> /\ objects' = [objects EXCEPT ![i] = row]
    BY <2>1 DEF SaveObject
  <2>3. LinkageOK(objects', rules')
    BY <2>1, <2>2 DEF TablesInv, LinkageOK
  <2>4. QED
    BY <1>1, <1>6, <2>2, <2>3, LinkageKeepsTables DEF Table, TableOf
<1>7. CASE page = "rules"
  <2>1. SaveRule(i, row) /\ i \in Rules /\ row \in RuleRow
    BY <1>7 DEF Saves, IdsOf, RowTypes
  <2>2. UNCHANGED <<vars, objects>> /\ rules' = [rules EXCEPT ![i] = row]
    BY <2>1 DEF SaveRule
  <2>3. LinkageOK(objects', rules')
    BY <2>1, <2>2 DEF TablesInv, LinkageOK
  <2>4. QED
    BY <1>1, <1>7, <2>2, <2>3, LinkageKeepsTables DEF Table, TableOf
<1>8. QED
  BY <1>2, <1>3, <1>4, <1>5, <1>6, <1>7 DEF Kinds

LEMMA DeletionMarks ==
    ASSUME TablesInv, page \in Kinds, NEW i, Deletes(i), UNCHANGED <<mapVars, page, backup, rest>>
    PROVE  TablesInv' /\ i \in Live(Table) /\ Table' = [Table EXCEPT ![i] = Gone]
<1>1. page' = page /\ DOMAIN rest' = DOMAIN rest
  OBVIOUS
<1>2. CASE page = "ports"
  <2>1. DeletePort(i) /\ UNCHANGED linkVars
    BY <1>2 DEF Deletes
  <2>2. i \in Ports
    BY <2>1 DEF DeletePort, Live, TablesInv, IInv, MapTypeOK, TypeOK
  <2>3. ConfigNext
    BY <2>1, <2>2 DEF ConfigNext
  <2>4. TablesInv'
    BY <1>1, <2>1, <2>3, ConfigKeepsTables
  <2>5. QED
    BY <1>1, <1>2, <2>1, <2>4 DEF DeletePort, Table, TableOf
<1>3. CASE page = "controllers"
  <2>1. DeleteController(i) /\ UNCHANGED linkVars
    BY <1>3 DEF Deletes
  <2>2. i \in Controllers
    BY <2>1 DEF DeleteController, Live, TablesInv, IInv, MapTypeOK, TypeOK
  <2>3. ConfigNext
    BY <2>1, <2>2 DEF ConfigNext
  <2>4. TablesInv'
    BY <1>1, <2>1, <2>3, ConfigKeepsTables
  <2>5. QED
    BY <1>1, <1>3, <2>1, <2>4 DEF DeleteController, Table, TableOf
<1>4. CASE page = "gas_types"
  <2>1. DeleteGasType(i) /\ UNCHANGED linkVars
    BY <1>4 DEF Deletes
  <2>2. i \in GasTypes
    BY <2>1 DEF DeleteGasType, Live, TablesInv, IInv, MapTypeOK, TypeOK
  <2>3. ConfigNext
    BY <2>1, <2>2 DEF ConfigNext
  <2>4. TablesInv'
    BY <1>1, <2>1, <2>3, ConfigKeepsTables
  <2>5. QED
    BY <1>1, <1>4, <2>1, <2>4 DEF DeleteGasType, Table, TableOf
<1>5. CASE page = "detectors"
  <2>1. DeleteDetector(i) /\ UNCHANGED linkVars
    BY <1>5 DEF Deletes
  <2>2. i \in Detectors
    BY <2>1 DEF DeleteDetector, Live, TablesInv, IInv, MapTypeOK, TypeOK
  <2>3. ConfigNext
    BY <2>1, <2>2 DEF ConfigNext
  <2>4. TablesInv'
    BY <1>1, <2>1, <2>3, ConfigKeepsTables
  <2>5. QED
    BY <1>1, <1>5, <2>1, <2>4 DEF DeleteDetector, Table, TableOf
<1>6. CASE page = "objects"
  <2>1. i \in Live(objects) /\ UNCHANGED <<vars, rules>> /\ objects' = [objects EXCEPT ![i] = Gone]
    BY <1>6 DEF Deletes, DeleteObject
  <2>2. LinkageOK(objects', rules')
    BY <2>1 DEF TablesInv, LinkageOK
  <2>3. QED
    BY <1>1, <1>6, <2>1, <2>2, LinkageKeepsTables DEF Table, TableOf
<1>7. CASE page = "rules"
  <2>1. i \in Live(rules) /\ UNCHANGED <<vars, objects>> /\ rules' = [rules EXCEPT ![i] = Gone]
    BY <1>7 DEF Deletes, DeleteRule
  <2>2. LinkageOK(objects', rules')
    BY <2>1 DEF TablesInv, LinkageOK
  <2>3. QED
    BY <1>1, <1>7, <2>1, <2>2, LinkageKeepsTables DEF Table, TableOf
<1>8. QED
  BY <1>2, <1>3, <1>4, <1>5, <1>6, <1>7 DEF Kinds

\* No id of a detector is given twice.
LEMMA IdsAreSpent ==
    ASSUME TypeOK, ConfigNext
    PROVE  \A d \in Detectors : (detectors[d] = Gone => detectors'[d] = Gone)
                                /\ (detectors[d] # Free => detectors'[d] # Free)
<1>1. Free # Gone /\ \A row \in DetectorRow : row \notin {Free, Gone}
  BY RowsAssumption, RowsAreNoMarks
<1>2. ASSUME NEW d \in Detectors, DeleteDetector(d)
      PROVE  \A e \in Detectors : (detectors[e] = Gone => detectors'[e] = Gone)
                                  /\ (detectors[e] # Free => detectors'[e] # Free)
  BY <1>1, <1>2 DEF TypeOK, DeleteDetector
<1>3. ASSUME NEW d \in Detectors, NEW row \in DetectorRow, SaveDetector(d, row)
      PROVE  \A e \in Detectors : (detectors[e] = Gone => detectors'[e] = Gone)
                                  /\ (detectors[e] # Free => detectors'[e] # Free)
  BY <1>1, <1>3 DEF TypeOK, SaveDetector
<1>4. ASSUME NEW ids \in SUBSET Detectors, ImportDetectors(ids)
      PROVE  \A e \in Detectors : (detectors[e] = Gone => detectors'[e] = Gone)
                                  /\ (detectors[e] # Free => detectors'[e] # Free)
  BY <1>1, <1>4 DEF TypeOK, ImportDetectors
<1>5. QED
  BY <1>2, <1>3, <1>4 DEF ConfigNext, DeletePort, SavePort, DeleteController, SaveController,
     DeleteGasType, SaveGasType

\* What another page does leaves the rows of this one alone.
LEMMA OthersKeepRows ==
    ASSUME TablesInv, page \in Kinds, SetCategory
    PROVE  /\ TablesInv'
           /\ \A i \in Live(Table) : Table'[i] = Table[i] /\ rest'[i] = rest[i]
           /\ \A i \in IdsOf[page] : (Table[i] = Gone => Table'[i] = Gone)
                                     /\ (Table[i] # Free => Table'[i] # Free)
<1>1. UNCHANGED <<mapVars, page, backup>>
  BY DEF SetCategory
<1>2. CASE page = "rules" /\ UNCHANGED rest /\ \E o \in Objects : DeleteObject(o) \/ \E row \in ObjectRow : SaveObject(o, row)
  <2>1. UNCHANGED <<vars, rules>> /\ LinkageOK(objects', rules')
    <3>1. PICK o \in Objects : DeleteObject(o) \/ \E row \in ObjectRow : SaveObject(o, row)
      BY <1>2
    <3>2. QED
      BY <3>1 DEF DeleteObject, SaveObject, TablesInv, LinkageOK
  <2>2. TablesInv'
    BY <1>1, <1>2, <2>1, LinkageKeepsTables
  <2>3. Table' = Table
    BY <1>1, <1>2, <2>1 DEF Table, TableOf
  <2>4. QED
    BY <1>2, <2>2, <2>3
<1>3. CASE /\ page = "detectors" /\ \E g \in Live(gasTypes), v \in Rest : rest' = [rest EXCEPT ![g] = v]
           /\ UNCHANGED <<vars, linkVars>>
  <2>1. PICK g \in Live(gasTypes), v \in Rest : rest' = [rest EXCEPT ![g] = v]
    BY <1>3
  <2>2. g \in GasTypes /\ DOMAIN rest' = DOMAIN rest /\ LinkageOK(objects', rules')
    BY <1>3, <2>1 DEF Live, TablesInv, IInv, MapTypeOK, TypeOK, linkVars
  <2>3. TablesInv'
    BY <1>1, <1>3, <2>2, LinkageKeepsTables
  <2>4. Table' = Table
    BY <1>1, <1>3 DEF Table, TableOf, vars
  <2>5. \A i \in Live(Table) : i \in Detectors /\ i \in DOMAIN rest /\ i # g
    BY <1>3, <2>2, TableTyped, PlacesOfRest, PagesAssumption DEF Live, IdsOf
  <2>6. QED
    BY <2>1, <2>3, <2>4, <2>5
<1>4. CASE /\ ConfigNext /\ UNCHANGED <<linkVars, rest>>
           /\ \A i \in Live(Table) : Table'[i] = Table[i]
           /\ page # "detectors" => Table' = Table
  <2>1. TablesInv'
    BY <1>1, <1>4, ConfigKeepsTables
  <2>2. page = "detectors" => Table = detectors /\ Table' = detectors' /\ IdsOf[page] = Detectors
    BY <1>1 DEF Table, TableOf, IdsOf
  <2>3. TypeOK
    BY DEF TablesInv, IInv, MapTypeOK
  <2>4. QED
    BY <1>4, <2>1, <2>2, <2>3, IdsAreSpent
<1>5. QED
  BY <1>2, <1>3, <1>4 DEF SetCategory

\* The tables of the backup take the place of the others.
LEMMA RestoreKeepsTables == ASSUME TablesInv, Restored PROVE TablesInv'
<1>1. /\ ports' = backup.ports /\ controllers' = backup.controllers /\ gasTypes' = backup.gas_types
      /\ detectors' = backup.detectors /\ objects' = backup.objects /\ rules' = backup.rules
      /\ UNCHANGED <<maps, points, files, upload, page, backup>> /\ DOMAIN rest' = DOMAIN rest
  BY DEF Restored, mapVars
<1>2. TypeOK'
  BY <1>1 DEF TablesInv, TypeOK, Backup!TypeOK, PortRow, ControllerRow, GasTypeRow, DetectorRow,
     Backup!PortRow, Backup!ControllerRow, Backup!GasTypeRow, Backup!DetectorRow
<1>3. ReferencesLive' /\ UniqueAmongLive'
  BY <1>1 DEF TablesInv, ReferencesLive, UniqueAmongLive, Backup!ReferencesLive,
     Backup!UniqueAmongLive, Live, Backup!Live
<1>4. MapTypeOK' /\ PointsOnLiveMaps' /\ MapsHaveFiles' /\ UploadIsNew'
  BY <1>1, <1>2 DEF TablesInv, IInv, MapTypeOK, PointsOnLiveMaps, MapsHaveFiles, UploadIsNew,
     Idle, Live
<1>5. Backup!TypeOK' /\ Backup!ReferencesLive' /\ Backup!UniqueAmongLive'
  BY <1>1 DEF TablesInv, Backup!TypeOK, Backup!ReferencesLive, Backup!UniqueAmongLive, Backup!Live
<1>6. LinkageOK(objects', rules') /\ LinkageOK(backup'.objects, backup'.rules)
  BY <1>1 DEF TablesInv
<1>7. QED
  BY <1>1, <1>2, <1>3, <1>4, <1>5, <1>6 DEF TablesInv, IInv, Idle, LinkageOK

\* Filling the boxes again leaves a field or empties a box, except the controller's,
\* and only on the detectors page does it touch the limits.
LEMMA RefilledForm ==
    ASSUME page \in Kinds, Shaped(form), NEW of
    PROVE  /\ Shaped(Refilled(of))
           /\ \A f \in Fields[page] \ {"controller"} :
                 \/ Refilled(of).row[f] = form.row[f]
                 \/ f \in {"port", "gas", "object"} /\ Refilled(of).row[f] = NoChoice
           /\ page # "detectors" => Refilled(of).rest = form.rest
<1>1. DOMAIN form = {"row", "rest"} /\ DOMAIN form.row = Fields[page]
  BY DEF Shaped
<1>2. CASE page = "controllers"
  <2> DEFINE p == _fill_combo(form.row.port, of.port)
  <2>1. p = form.row.port \/ p = NoChoice
    BY DEF _fill_combo, _set_combo
  <2>2. Refilled(of) = [form EXCEPT !.row.port = p]
    BY <1>2 DEF Refilled
  <2> HIDE DEF p
  <2>3. Fields[page] = {"port", "address"}
    BY <1>2 DEF Fields
  <2>4. Shaped(Refilled(of))
    BY <1>1, <2>2 DEF Shaped
  <2>5. QED
    BY <1>1, <1>2, <2>1, <2>2, <2>3, <2>4
<1>3. CASE page = "rules"
  <2> DEFINE o == _fill_combo(form.row.object, of.object)
  <2>1. o = form.row.object \/ o = NoChoice
    BY DEF _fill_combo, _set_combo
  <2>2. Refilled(of) = [form EXCEPT !.row.object = o]
    BY <1>3 DEF Refilled
  <2> HIDE DEF o
  <2>3. Fields[page] = {"object"}
    BY <1>3 DEF Fields
  <2>4. Shaped(Refilled(of))
    BY <1>1, <2>2 DEF Shaped
  <2>5. QED
    BY <1>1, <1>3, <2>1, <2>2, <2>3, <2>4
<1>4. CASE page = "detectors"
  <2> DEFINE p == _fill_combo(form.row.port, of.port)
             g == _fill_combo(form.row.gas, of.gas)
             row == [form.row EXCEPT !.port = p, !.gas = g]
             k == _set_combo(NoController, Filtered(of, row.port), row.controller)
             limits == _apply_selected_gas_defaults(of, row.gas, form.rest)
  <2>1. (p = form.row.port \/ p = NoChoice) /\ (g = form.row.gas \/ g = NoChoice)
    BY DEF _fill_combo, _set_combo
  <2> DEFINE filled == [row EXCEPT !.controller = k]
  <2>2. Refilled(of) = [row |-> filled, rest |-> limits]
    BY <1>4 DEF Refilled, _filter_controller_combo
  <2>3. Fields[page] = {"port", "controller", "gas", "code"}
    BY <1>4 DEF Fields
  <2> HIDE DEF p, g, k, limits
  <2>4. /\ DOMAIN row = Fields[page] /\ row["port"] = p /\ row["gas"] = g
        /\ row["code"] = form.row["code"]
    BY <1>1, <2>3
  <2> HIDE DEF row
  <2>5. /\ DOMAIN filled = Fields[page] /\ filled["port"] = p /\ filled["gas"] = g
        /\ filled["code"] = form.row["code"]
    BY <2>3, <2>4
  <2> HIDE DEF filled
  <2>6. Shaped(Refilled(of)) /\ Refilled(of).row = filled
    BY <2>2, <2>5 DEF Shaped
  <2>7. QED
    BY <1>4, <2>1, <2>3, <2>5, <2>6
<1>5. CASE page \in {"ports", "gas_types", "objects"}
  <2>1. Refilled(of) = form
    BY <1>5 DEF Refilled
  <2>2. QED
    BY <2>1
<1>6. QED
  BY <1>2, <1>3, <1>4, <1>5 DEF Kinds

\* A reload notes what it did to the form.
LEMMA ReloadAgrees ==
    ASSUME page \in Kinds, Shaped(form), page' = page, NEW now, Reloads(now),
           NEW row, NEW other, NEW edited
    PROVE  /\ Shaped(form)'
           /\ picked # None /\ Agrees(form, row, other, Differing(edited, now)) =>
                 Agrees(form', row, other, Differing(edited, since'))
           /\ picked # None /\ "restored" \in now => "restored" \in since'
<1>1. CASE LoadFails(now)
  BY <1>1 DEF LoadFails, Shaped
<1>2. CASE Loads(now)
  <2> DEFINE new == Refilled(ListsOf')
  <2>1. form' = new
    BY <1>2 DEF Loads
  <2>2. /\ Shaped(new)
        /\ \A f \in Fields[page] \ {"controller"} :
              \/ new.row[f] = form.row[f]
              \/ f \in {"port", "gas", "object"} /\ new.row[f] = NoChoice
        /\ page # "detectors" => new.rest = form.rest
    BY RefilledForm
  <2> HIDE DEF new
  <2>3. Shaped(form)'
    BY <2>1, <2>2 DEF Shaped
  <2>4. ASSUME picked # None
        PROVE  /\ now \subseteq since'
               /\ page = "detectors" => "reloaded" \in since'
               /\ page = "detectors" /\ form'.row.controller # form.row.controller => "dangling" \in since'
    BY <1>2, <2>4, Zenon DEF Loads
  <2>5. ASSUME picked # None, Agrees(form, row, other, Differing(edited, now))
        PROVE  Agrees(form', row, other, Differing(edited, since'))
    <3>1. Differing(edited, now) \subseteq Differing(edited, since')
      BY <2>4, <2>5 DEF Differing
    <3>2. ASSUME NEW f \in Fields[page] \ Differing(edited, since')
          PROVE  form'.row[f] = row[f] \/ (f \in {"port", "gas", "object"} /\ form'.row[f] = NoChoice)
      <4>1. form.row[f] = row[f] \/ (f \in {"port", "gas", "object"} /\ form.row[f] = NoChoice)
        BY <2>5, <3>1, <3>2 DEF Agrees
      <4>2. CASE f = "controller"
        <5>1. page = "detectors"
          BY <3>2, <4>2 DEF Kinds, Fields
        <5>2. form'.row.controller = form.row.controller
          BY <2>4, <2>5, <3>2, <4>2, <5>1 DEF Differing
        <5>3. form'.row[f] = form.row[f]
          BY <4>2, <5>2
        <5>4. QED
          BY <4>1, <5>3
      <4>3. CASE f # "controller"
        BY <2>1, <2>2, <3>2, <4>1, <4>3
      <4>4. QED
        BY <4>2, <4>3
    <3>3. "rest" \notin Differing(edited, since') => form'.rest = other
      <4>1. SUFFICES ASSUME "rest" \notin Differing(edited, since') PROVE form'.rest = other
        OBVIOUS
      <4>2. page # "detectors" /\ form.rest = other
        BY <2>4, <2>5, <3>1, <4>1 DEF Differing, Agrees
      <4>3. QED
        BY <2>1, <2>2, <4>2
    <3>4. QED
      BY <3>2, <3>3 DEF Agrees
  <2>6. QED
    BY <2>3, <2>4, <2>5
<1>3. QED
  BY <1>1, <1>2 DEF Reloads

LEMMA TypedThen ==
    ASSUME TablesInv', page \in Kinds, page' = page
    PROVE  Table' \in [IdsOf[page] -> RowTypes[page] \union {Free, Gone}]
<1>1. TypeOK' /\ LinkageOK(objects', rules')
  BY DEF TablesInv, IInv, MapTypeOK
<1>2. QED
  BY <1>1 DEF Kinds, Table, TableOf, IdsOf, RowTypes, TypeOK, LinkageOK

\* After a reload that went well the rows shown are those of the table.
LEMMA ReloadShows ==
    ASSUME TablesInv', page \in Kinds, page' = page, ShownInv, NEW now, Reloads(now)
    PROVE  ShownInv'
<1>1. CASE LoadFails(now)
  <2>1. loaded' = loaded \union {"failed"}
        /\ (shown' = shown \/ shown' = [i \in {} |-> NoChoice])
    BY <1>1 DEF LoadFails
  <2>2. QED
    BY <2>1 DEF ShownInv
<1>2. CASE Loads(now)
  <2>1. /\ shown' = LoadedRows' /\ loaded' = {} /\ offers' = ListsOf'
    BY <1>2 DEF Loads
  <2>2. Table' \in [IdsOf[page] -> RowTypes[page] \union {Free, Gone}]
    BY TypedThen
  <2>3. \A i \in Live(Table)' : i \in IdsOf[page] /\ Table'[i] \in RowTypes[page]
    BY <2>2 DEF Live
  <2>4. /\ DOMAIN shown' = Live(Table)'
        /\ \A i \in Live(Table)' : shown'[i] = Full(Table, i)' /\ shown'[i].row = Table'[i]
    BY <2>1 DEF LoadedRows, Full
  <2>5. \A i \in DOMAIN shown' : DOMAIN shown'[i].row = Fields[page]
    BY <2>3, <2>4, ShapesOfRows
  <2>6. page = "detectors" => \A i \in DOMAIN shown' : detectors'[i].gas \in offers'.gas
    <3>1. SUFFICES ASSUME page = "detectors", NEW i \in DOMAIN shown' PROVE detectors'[i].gas \in offers'.gas
      OBVIOUS
    <3>2. offers'.gas = Live(gasTypes)' /\ i \in Live(detectors)'
      BY <2>1, <2>4, <3>1 DEF ListsOf, Table, TableOf
    <3>3. QED
      BY <3>2 DEF TablesInv, IInv, ReferencesLive
  <2>7. QED
    BY <2>1, <2>3, <2>4, <2>5, <2>6 DEF ShownInv
<1>3. QED
  BY <1>1, <1>2 DEF Reloads

\* A reload leaves the form in agreement with the row it will be saved to.
LEMMA FormAfterReload ==
    ASSUME page \in Kinds, FormInv, page' = page, picked' = picked, NEW now, Reloads(now),
           picked # None /\ "restored" \notin now =>
               /\ Table'[picked] # Free
               /\ picked \in Live(Table)' =>
                     Agrees(form, Table'[picked], rest'[picked], Differing(touched', now))
    PROVE  FormInv'
<1> DEFINE row == Table'[picked]
           other == rest'[picked]
           edited == touched'
<1>1. Shaped(form) /\ (picked # None => picked \in IdsOf[page])
  BY DEF FormInv
<1>2. /\ picked # None /\ "restored" \notin now => row # Free
      /\ picked # None /\ "restored" \notin now /\ picked \in Live(Table)' =>
            Agrees(form, row, other, Differing(edited, now))
  OBVIOUS
<1> HIDE DEF row, other, edited
<1>3. /\ Shaped(form)'
      /\ picked # None /\ Agrees(form, row, other, Differing(edited, now)) =>
            Agrees(form', row, other, Differing(edited, since'))
      /\ picked # None /\ "restored" \in now => "restored" \in since'
  BY <1>1, ReloadAgrees
<1>4. Agrees(form, Table[picked], rest[picked], Differing(touched, since))'
      <=> Agrees(form', row, other, Differing(edited, since'))
  BY DEF row, other, edited, Agrees, Differing
<1>5. Table[picked]' = row
  BY DEF row
<1>6. QED
  BY <1>1, <1>2, <1>3, <1>4, <1>5 DEF FormInv

\* Handlers that leave the tables and what is shown alone.
LEMMA QuietTables ==
    ASSUME TablesInv, page \in Kinds, UNCHANGED <<mapVars, page, backup>>, UNCHANGED tables
    PROVE  TablesInv' /\ Table' = Table /\ rest' = rest
<1>1. UNCHANGED <<vars, objects, rules, rest>>
  BY DEF tables, linkVars
<1>2. LinkageOK(objects', rules')
  BY <1>1 DEF TablesInv
<1>3. TablesInv'
  BY <1>1, <1>2, LinkageKeepsTables
<1>4. QED
  BY <1>1, <1>3 DEF Table, TableOf, vars

LEMMA QuietPage ==
    ASSUME TablesInv, page \in Kinds, ShownInv, UNCHANGED <<mapVars, page, backup>>,
           UNCHANGED <<tables, shown, loaded, offers>>
    PROVE  TablesInv' /\ ShownInv' /\ Table' = Table /\ rest' = rest
<1>1. TablesInv' /\ Table' = Table /\ rest' = rest
  BY QuietTables
<1>2. ShownInv'
  BY <1>1 DEF ShownInv, Full, tables, vars
<1>3. QED
  BY <1>1, <1>2

LEMMA ReloadStep ==
    ASSUME PagesInv, page \in Kinds, UNCHANGED <<mapVars, page, backup>>, reload
    PROVE  PagesInv'
<1>1. TablesInv /\ ShownInv /\ FormInv /\ page' = page
  BY DEF PagesInv, Kinds
<1>2. UNCHANGED <<tables, picked, touched>> /\ Reloads(since)
  BY DEF reload
<1>3. TablesInv' /\ Table' = Table /\ rest' = rest
  BY <1>1, <1>2, QuietTables
<1>4. ShownInv'
  BY <1>1, <1>2, <1>3, ReloadShows
<1>5. picked # None /\ "restored" \notin since =>
          /\ Table'[picked] # Free
          /\ picked \in Live(Table)' =>
                Agrees(form, Table'[picked], rest'[picked], Differing(touched', since))
  BY <1>1, <1>2, <1>3 DEF FormInv, Live
<1>6. FormInv'
  BY <1>1, <1>2, <1>5, FormAfterReload
<1>7. QED
  BY <1>3, <1>4, <1>6 DEF PagesInv

\* A row is clicked: what the boxes do not offer is noted.
LEMMA AppliedRow ==
    ASSUME page \in Kinds, NEW row, DOMAIN row = Fields[page]
    PROVE  /\ DOMAIN _apply_row(row) = Fields[page]
           /\ \A f \in Fields[page] \ {"port", "controller", "object", "gas"} : _apply_row(row)[f] = row[f]
           /\ page = "detectors" /\ row.gas \in offers.gas => _apply_row(row).gas = row.gas
<1>1. CASE page = "controllers"
  BY <1>1 DEF _apply_row, Fields
<1>2. CASE page = "rules"
  BY <1>2 DEF _apply_row, Fields
<1>3. CASE page = "detectors"
  <2> DEFINE p == _set_combo(form.row.port, offers.port, row.port)
             filtered == _filter_controller_combo(offers, [form.row EXCEPT !.port = p])
             k == _set_combo(filtered.controller, Filtered(offers, p), row.controller)
             g == _set_combo(form.row.gas, offers.gas, row.gas)
  <2>1. _apply_row(row) = [row EXCEPT !.port = p, !.controller = k, !.gas = g]
    BY <1>3 DEF _apply_row
  <2>2. row.gas \in offers.gas => g = row.gas
    BY DEF _set_combo
  <2> HIDE DEF p, filtered, k, g
  <2>3. Fields[page] = {"port", "controller", "gas", "code"}
    BY <1>3 DEF Fields
  <2>4. QED
    BY <2>1, <2>2, <2>3
<1>4. CASE page \in {"ports", "gas_types", "objects"}
  BY <1>4 DEF _apply_row, Fields
<1>5. QED
  BY <1>1, <1>2, <1>3, <1>4 DEF Kinds

LEMMA SelectionStep ==
    ASSUME PagesInv, page \in Kinds, UNCHANGED <<mapVars, page, backup>>, _selection_changed
    PROVE  PagesInv'
<1>1. TablesInv /\ ShownInv /\ FormInv
  BY DEF PagesInv, Kinds
<1>2. UNCHANGED <<tables, shown, loaded, offers>>
  BY DEF _selection_changed
<1>3. TablesInv' /\ ShownInv' /\ Table' = Table /\ rest' = rest /\ page' = page
  BY <1>1, <1>2, QuietPage
<1>4. CASE picked' = None /\ form' = form
  BY <1>1, <1>3, <1>4 DEF FormInv, Shaped, PagesInv
<1>5. CASE \E i \in DOMAIN shown :
              /\ "failed" \notin loaded
              /\ picked' = i /\ touched' = {}
              /\ form' = [row |-> _apply_row(shown[i].row), rest |-> shown[i].rest]
              /\ since' = loaded \union IF form'.row # shown[i].row THEN {"dangling"} ELSE {}
  <2>1. PICK i \in DOMAIN shown :
              /\ "failed" \notin loaded
              /\ picked' = i /\ touched' = {}
              /\ form' = [row |-> _apply_row(shown[i].row), rest |-> shown[i].rest]
              /\ since' = loaded \union IF form'.row # shown[i].row THEN {"dangling"} ELSE {}
    BY <1>5
  <2> DEFINE row == shown[i].row
             applied == _apply_row(row)
  <2>2. DOMAIN row = Fields[page] /\ i \in IdsOf[page]
    BY <1>1 DEF ShownInv
  <2>3. /\ form'.row = applied /\ form'.rest = shown[i].rest /\ DOMAIN form' = {"row", "rest"}
        /\ applied # row => "dangling" \in since'
        /\ loaded \subseteq since'
    BY <2>1
  <2> HIDE DEF row, applied
  <2>4. /\ DOMAIN applied = Fields[page]
        /\ \A f \in Fields[page] \ {"port", "controller", "object", "gas"} : applied[f] = row[f]
        /\ page = "detectors" /\ row.gas \in offers.gas => applied.gas = row.gas
    BY <2>2, AppliedRow DEF applied
  <2>5. Shaped(form)'
    BY <1>3, <2>3, <2>4 DEF Shaped
  <2>6. ASSUME "restored" \notin since'
        PROVE  Table'[i] # Free /\ Agrees(form', Table'[i], rest'[i], Differing(touched', since'))
    <3>1. loaded = {}
      BY <1>1, <2>1, <2>3, <2>6 DEF ShownInv
    <3>2. /\ i \in Live(Table) /\ row = Table[i] /\ shown[i].rest = rest[i]
          /\ page = "detectors" => row.gas \in offers.gas
      <4>1. i \in Live(Table) /\ shown[i] = Full(Table, i)
            /\ (page = "detectors" => detectors[i].gas \in offers.gas)
        BY <1>1, <3>1 DEF ShownInv
      <4>2. row = Table[i] /\ shown[i].rest = rest[i]
        BY <4>1 DEF row, Full
      <4>3. page = "detectors" => Table = detectors
        BY DEF Table, TableOf
      <4>4. QED
        BY <4>1, <4>2, <4>3
    <3>3. ASSUME NEW f \in Fields[page] \ Differing(touched', since') PROVE form'.row[f] = Table'[i][f]
      <4>1. CASE applied = row
        BY <1>3, <2>3, <3>2, <4>1
      <4>2. CASE applied # row
        <5>1. f \notin {"port", "controller", "object"}
          BY <2>3, <3>3, <4>2 DEF Differing
        <5>2. CASE f = "gas"
          <6>1. page = "detectors"
            BY <3>3, <5>2 DEF Kinds, Fields
          <6>2. applied.gas = row.gas
            BY <2>4, <3>2, <6>1
          <6>3. applied[f] = row[f]
            BY <5>2, <6>2
          <6>4. QED
            BY <1>3, <2>3, <3>2, <6>3
        <5>3. CASE f # "gas"
          <6>1. applied[f] = row[f]
            BY <2>4, <3>3, <5>1, <5>3
          <6>2. QED
            BY <1>3, <2>3, <3>2, <6>1
        <5>4. QED
          BY <5>2, <5>3
      <4>3. QED
        BY <4>1, <4>2
    <3>4. form'.rest = rest'[i]
      BY <1>3, <2>3, <3>2
    <3>5. Agrees(form', Table'[i], rest'[i], Differing(touched', since'))
      BY <3>3, <3>4 DEF Agrees
    <3>6. QED
      BY <1>3, <3>2, <3>5 DEF Live
  <2>7. FormInv'
    <3>1. Agrees(form, Table[picked], rest[picked], Differing(touched, since))'
          <=> Agrees(form', Table'[i], rest'[i], Differing(touched', since'))
      BY <1>3, <2>1 DEF Agrees, Differing
    <3>2. Table[picked]' = Table'[i] /\ picked' \in IdsOf[page]
      BY <2>1, <2>2
    <3>3. QED
      BY <1>3, <2>5, <2>6, <3>1, <3>2 DEF FormInv
  <2>8. QED
    BY <1>3, <2>7 DEF PagesInv
<1>6. QED
  BY <1>4, <1>5 DEF _selection_changed

LEMMA NewRecordStep ==
    ASSUME PagesInv, page \in Kinds, UNCHANGED <<mapVars, page, backup>>, new_record
    PROVE  PagesInv'
<1>1. TablesInv /\ ShownInv /\ FormInv
  BY DEF PagesInv, Kinds
<1>2. UNCHANGED <<tables, shown, loaded, offers>> /\ picked' = None /\ form' = Cleared
  BY DEF new_record
<1>3. TablesInv' /\ ShownInv' /\ page' = page
  BY <1>1, <1>2, QuietPage
<1>4. DOMAIN form = {"row", "rest"} /\ DOMAIN form.row = Fields[page]
  BY <1>1 DEF FormInv, Shaped
<1>5. Shaped(Cleared)
  <2>1. CASE page \in {"ports", "gas_types", "objects"}
    BY <2>1 DEF Cleared, Shaped, Fields
  <2>2. CASE page = "controllers"
    BY <1>4, <2>2 DEF Cleared, Shaped
  <2>3. CASE page = "detectors"
    BY <1>4, <2>3 DEF Cleared, Shaped
  <2>4. CASE page = "rules"
    BY <1>4, <2>4 DEF Cleared, Shaped
  <2>5. QED
    BY <2>1, <2>2, <2>3, <2>4 DEF Kinds
<1>6. FormInv'
  BY <1>2, <1>3, <1>5 DEF FormInv, Shaped
<1>7. QED
  BY <1>3, <1>6 DEF PagesInv

\* Editing changes fields that are noted as edited.
EditStep == EditRest \/ EditController \/ \E field \in Fields[page] \ {"controller"} : EditField(field)

LEMMA EditsAreNoted ==
    ASSUME page \in Kinds, Shaped(form), EditStep
    PROVE  /\ Shaped(form') /\ touched \subseteq touched'
           /\ \A f \in Fields[page] \ touched' : form'.row[f] = form.row[f]
           /\ "rest" \notin touched' => form'.rest = form.rest
<1>1. DOMAIN form = {"row", "rest"} /\ DOMAIN form.row = Fields[page]
  BY DEF Shaped
<1>2. CASE EditRest
  <2>1. PICK v \in Rest : form' = [form EXCEPT !.rest = v]
    BY <1>2 DEF EditRest
  <2>2. touched' = touched \union {"rest"}
    BY <1>2 DEF EditRest, Touches
  <2>3. QED
    BY <1>1, <2>1, <2>2 DEF Shaped
<1>3. CASE EditController
  <2>1. PICK k : form' = [form EXCEPT !.row.controller = k]
    BY <1>3 DEF EditController
  <2>2. touched' = touched \union {"controller"}
    BY <1>3 DEF EditController, Touches
  <2>3. QED
    BY <1>1, <2>1, <2>2 DEF Shaped
<1>4. ASSUME NEW field \in Fields[page] \ {"controller"}, EditField(field)
      PROVE  /\ Shaped(form') /\ touched \subseteq touched'
             /\ \A f \in Fields[page] \ touched' : form'.row[f] = form.row[f]
             /\ "rest" \notin touched' => form'.rest = form.rest
  <2>1. PICK v \in Choices(field) :
            form' = CASE page = "detectors" /\ field = "port" ->
                           [form EXCEPT !.row = _filter_controller_combo(offers, [form.row EXCEPT ![field] = v])]
                      [] field = "gas" ->
                           [row |-> [form.row EXCEPT ![field] = v],
                            rest |-> _apply_selected_gas_defaults(offers, v, form.rest)]
                      [] OTHER -> [form EXCEPT !.row = [form.row EXCEPT ![field] = v]]
    BY <1>4 DEF EditField
  <2> DEFINE row == [form.row EXCEPT ![field] = v]
  <2>2. DOMAIN row = Fields[page] /\ \A f \in Fields[page] \ {field} : row[f] = form.row[f]
    BY <1>1
  <2>3. touched' = touched \union ({field} \union
            CASE page = "detectors" /\ field = "port" -> {"controller"}
              [] field = "gas" -> {"rest"} [] OTHER -> {})
    BY <1>4 DEF EditField, Touches
  <2>4. touched \subseteq touched' /\ field \in touched'
    BY <2>3
  <2>5. CASE page = "detectors" /\ field = "port"
    <3> DEFINE filtered == _filter_controller_combo(offers, row)
    <3>1. form' = [form EXCEPT !.row = filtered]
      BY <2>1, <2>5
    <3>2. "controller" \in touched'
      BY <2>3, <2>5
    <3>3. /\ DOMAIN filtered = Fields[page]
          /\ \A f \in Fields[page] \ {"controller"} : filtered[f] = row[f]
      <4> HIDE DEF row
      <4>1. QED
        BY <2>2 DEF _filter_controller_combo
    <3> HIDE DEF filtered, row
    <3>4. DOMAIN form' = {"row", "rest"} /\ form'.row = filtered /\ form'.rest = form.rest
      BY <1>1, <3>1
    <3>5. QED
      BY <2>2, <2>4, <3>2, <3>3, <3>4 DEF Shaped
  <2>6. CASE field = "gas"
    <3>1. DOMAIN form' = {"row", "rest"} /\ form'.row = row
      BY <2>1, <2>6
    <3>2. "rest" \in touched'
      BY <2>3, <2>6
    <3> HIDE DEF row
    <3>3. QED
      BY <2>2, <2>4, <3>1, <3>2 DEF Shaped
  <2>7. CASE ~ (page = "detectors" /\ field = "port") /\ field # "gas"
    <3>1. form' = [form EXCEPT !.row = row]
      BY <2>1, <2>7
    <3> HIDE DEF row
    <3>2. DOMAIN form' = {"row", "rest"} /\ form'.row = row /\ form'.rest = form.rest
      BY <1>1, <3>1
    <3>3. QED
      BY <2>2, <2>4, <3>2 DEF Shaped
  <2>8. QED
    BY <2>5, <2>6, <2>7
<1>5. QED
  BY <1>2, <1>3, <1>4 DEF EditStep

LEMMA EditKeepsInv ==
    ASSUME PagesInv, page \in Kinds, UNCHANGED <<mapVars, page, backup>>, EditStep
    PROVE  PagesInv' /\ Table' = Table /\ rest' = rest
<1>1. TablesInv /\ ShownInv /\ FormInv /\ Shaped(form)
  BY DEF PagesInv, Kinds, FormInv
<1>2. UNCHANGED <<tables, shown, loaded, offers, picked, since>>
  BY DEF EditStep, EditRest, EditController, EditField
<1>3. TablesInv' /\ ShownInv' /\ Table' = Table /\ rest' = rest /\ page' = page
  BY <1>1, <1>2, QuietPage
<1>4. /\ Shaped(form') /\ touched \subseteq touched'
      /\ \A f \in Fields[page] \ touched' : form'.row[f] = form.row[f]
      /\ "rest" \notin touched' => form'.rest = form.rest
  BY <1>1, EditsAreNoted
<1> DEFINE row == Table[picked]
           other == rest[picked]
<1>5. Agrees(form, row, other, Differing(touched, since)) =>
          Agrees(form', row, other, Differing(touched', since))
  <2> HIDE DEF row, other
  <2>1. /\ Differing(touched, since) \subseteq Differing(touched', since)
        /\ touched' \subseteq Differing(touched', since)
    BY <1>4 DEF Differing
  <2>2. QED
    BY <1>4, <2>1 DEF Agrees
<1>6. Agrees(form, Table[picked], rest[picked], Differing(touched, since))'
      <=> Agrees(form', row, other, Differing(touched', since))
  BY <1>2, <1>3 DEF Agrees, Differing
<1>7. FormInv'
  <2>1. Table[picked]' = row /\ (picked \in Live(Table))' <=> picked \in Live(Table)
    BY <1>2, <1>3 DEF Live
  <2>2. Shaped(form)'
    BY <1>3, <1>4 DEF Shaped
  <2>3. QED
    BY <1>1, <1>2, <1>3, <1>5, <1>6, <2>1, <2>2 DEF FormInv
<1>8. QED
  BY <1>3, <1>7 DEF PagesInv

\* What is in the form is saved, to the row that was chosen or to a new one.
LEMMA SavedRow ==
    ASSUME PagesInv, page \in Kinds, UNCHANGED <<mapVars, page, backup>>, save_current
    PROVE  /\ TablesInv' /\ form.row \in RowTypes[page]
           /\ \E i \in IdsOf[page] :
                 /\ IF picked = None THEN Table[i] = Free ELSE i = picked
                 /\ Table' = [Table EXCEPT ![i] = form.row] /\ rest' = [rest EXCEPT ![i] = form.rest]
<1>1. TablesInv
  BY DEF PagesInv
<1>2. form.row \in RowTypes[page]
  BY DEF save_current
<1>3. PICK i \in DOMAIN Table :
          Target(i) /\ Saves(i, form.row) /\ rest' = [rest EXCEPT ![i] = form.rest]
  BY DEF save_current
<1>4. i \in IdsOf[page]
  BY <1>1, <1>3, TableTyped
<1>5. TablesInv' /\ Table' = [Table EXCEPT ![i] = form.row]
  BY <1>1, <1>2, <1>3, <1>4, SaveWrites
<1>6. QED
  BY <1>2, <1>3, <1>4, <1>5 DEF Target

LEMMA SaveStep ==
    ASSUME PagesInv, page \in Kinds, UNCHANGED <<mapVars, page, backup>>, save_current
    PROVE  PagesInv'
<1>1. TablesInv /\ ShownInv /\ FormInv /\ page' = page
  BY DEF PagesInv, Kinds
<1>2. picked' = picked /\ touched' = {} /\ Reloads({})
  BY DEF save_current
<1>3. TablesInv' /\ form.row \in RowTypes[page]
  BY SavedRow
<1>4. PICK i \in IdsOf[page] :
          /\ IF picked = None THEN Table[i] = Free ELSE i = picked
          /\ Table' = [Table EXCEPT ![i] = form.row] /\ rest' = [rest EXCEPT ![i] = form.rest]
  BY SavedRow
<1>5. ShownInv'
  BY <1>1, <1>2, <1>3, ReloadShows
<1>6. Table'[i] = form.row /\ rest'[i] = form.rest
  BY <1>1, <1>4, TableTyped, PlacesOfRest
<1>7. form.row # Free
  BY <1>3, ShapesOfRows
<1>8. picked # None => Table'[picked] # Free
          /\ Agrees(form, Table'[picked], rest'[picked], Differing(touched', {}))
  BY <1>4, <1>6, <1>7 DEF Agrees
<1>9. FormInv'
  BY <1>1, <1>2, <1>8, FormAfterReload
<1>10. QED
  BY <1>3, <1>5, <1>9 DEF PagesInv

LEMMA DeleteStep ==
    ASSUME PagesInv, page \in Kinds, UNCHANGED <<mapVars, page, backup>>, delete_selected
    PROVE  PagesInv'
<1>1. TablesInv /\ ShownInv /\ FormInv /\ page' = page
  BY DEF PagesInv, Kinds
<1>2. Deletes(picked) /\ UNCHANGED <<rest, picked, touched>> /\ Reloads(since)
  BY DEF delete_selected
<1>3. TablesInv' /\ picked \in Live(Table) /\ Table' = [Table EXCEPT ![picked] = Gone]
  BY <1>1, <1>2, DeletionMarks
<1>4. ShownInv'
  BY <1>1, <1>2, <1>3, ReloadShows
<1>5. Table'[picked] = Gone /\ Gone # Free
  BY <1>3, RowsAssumption DEF Live
<1>6. picked \notin Live(Table)'
  BY <1>5 DEF Live
<1>7. FormInv'
  BY <1>1, <1>2, <1>5, <1>6, FormAfterReload
<1>8. QED
  BY <1>3, <1>4, <1>7 DEF PagesInv

LEMMA OthersStep == ASSUME PagesInv, page \in Kinds, SetCategory PROVE PagesInv'
<1>1. TablesInv /\ ShownInv /\ FormInv
  BY DEF PagesInv, Kinds
<1>2. UNCHANGED <<picked, touched>> /\ Reloads(since) /\ page' = page
  BY DEF SetCategory
<1>3. /\ TablesInv'
      /\ \A i \in Live(Table) : Table'[i] = Table[i] /\ rest'[i] = rest[i]
      /\ \A i \in IdsOf[page] : (Table[i] = Gone => Table'[i] = Gone)
                                /\ (Table[i] # Free => Table'[i] # Free)
  BY <1>1, OthersKeepRows
<1>4. ShownInv'
  BY <1>1, <1>2, <1>3, ReloadShows
<1>5. ASSUME picked # None, "restored" \notin since
      PROVE  /\ Table'[picked] # Free
             /\ picked \in Live(Table)' =>
                   Agrees(form, Table'[picked], rest'[picked], Differing(touched', since))
  <2>1. picked \in IdsOf[page] /\ Table[picked] # Free
    BY <1>1, <1>5 DEF FormInv
  <2>2. picked \in DOMAIN Table
    BY <1>1, <2>1, TableTyped
  <2>3. picked \in Live(Table)' => picked \in Live(Table)
    BY <1>3, <2>1, <2>2 DEF Live
  <2>4. QED
    BY <1>1, <1>2, <1>3, <1>5, <2>1, <2>3 DEF FormInv
<1>6. FormInv'
  BY <1>1, <1>2, <1>5, FormAfterReload
<1>7. QED
  BY <1>3, <1>4, <1>6 DEF PagesInv

LEMMA RestoredStep == ASSUME PagesInv, Restored PROVE PagesInv'
<1>1. TablesInv' /\ page' = page
  BY RestoreKeepsTables DEF PagesInv, Restored
<1>2. page # "none" => ShownInv /\ FormInv
  BY DEF PagesInv
<1>3. /\ loaded' = loaded \union {"restored"} /\ UNCHANGED <<shown, picked, form>>
      /\ picked # None => "restored" \in since'
  BY DEF Restored
<1>4. page # "none" => ShownInv' /\ FormInv'
  BY <1>1, <1>2, <1>3 DEF ShownInv, FormInv, Shaped
<1>5. QED
  BY <1>1, <1>4 DEF PagesInv

LEMMA OpenedRows ==
    ASSUME NEW kind, NEW ids, NEW rowType, NEW of, NEW table \in Opened(kind, ids, rowType, of)
    PROVE  table \in [ids -> rowType \union {Free}]
BY DEF Opened

LEMMA PagesStart == PagesInit => PagesInv
<1>1. SUFFICES ASSUME PagesInit PROVE PagesInv
  OBVIOUS
<1>2. page \in Kinds \union {"none"}
  BY <1>1, PagesAssumption DEF PagesInit, Kinds
<1>3. /\ ports \in [Ports -> PortRow \union {Free}] /\ gasTypes \in [GasTypes -> GasTypeRow \union {Free}]
      /\ controllers \in [Controllers -> ControllerRow \union {Free}]
      /\ detectors \in [Detectors -> DetectorRow \union {Free}]
      /\ objects \in [Objects -> ObjectRow \union {Free}] /\ rules \in [Rules -> RuleRow \union {Free}]
  BY <1>1, OpenedRows DEF PagesInit
<1>4. /\ UniqueAmongLive /\ ReferencesLive /\ backup = TableOf
      /\ maps = [m \in Maps |-> Free] /\ points = [q \in Points |-> Free]
      /\ files = [f \in Files |-> "none"] /\ upload = NoUpload
      /\ shown = [i \in {} |-> NoChoice] /\ loaded = {} /\ picked = None
      /\ rest = [i \in Ports \union Controllers \union GasTypes \union Detectors \union Objects
                        \union Rules |-> Fresh]
  BY <1>1 DEF PagesInit
<1>5. MapTypeOK /\ PointsOnLiveMaps /\ MapsHaveFiles /\ UploadIsNew /\ Idle
  BY <1>3, <1>4 DEF MapTypeOK, TypeOK, PointsOnLiveMaps, MapsHaveFiles, UploadIsNew, Idle, Live
<1>6. LinkageOK(objects, rules)
  BY <1>3 DEF LinkageOK
<1>7. /\ backup.ports = ports /\ backup.controllers = controllers /\ backup.gas_types = gasTypes
      /\ backup.detectors = detectors /\ backup.objects = objects /\ backup.rules = rules
  BY <1>4 DEF TableOf
<1>8. Backup!TypeOK
  BY <1>5, <1>7 DEF MapTypeOK, TypeOK, Backup!TypeOK, PortRow, ControllerRow, GasTypeRow, DetectorRow,
     Backup!PortRow, Backup!ControllerRow, Backup!GasTypeRow, Backup!DetectorRow
<1>9. Backup!ReferencesLive /\ Backup!UniqueAmongLive
  BY <1>4, <1>7 DEF ReferencesLive, UniqueAmongLive, Backup!ReferencesLive,
     Backup!UniqueAmongLive, Live, Backup!Live
<1>10. page # "none" => \A i \in IdsOf[page] : backup[page][i] # Gone
  <2>1. Free # Gone /\ \A kind \in Kinds : \A row \in RowTypes[kind] : row # Gone
    BY RowsAssumption, ShapesOfRows
  <2>2. \A kind \in Kinds : backup[kind] \in [IdsOf[kind] -> RowTypes[kind] \union {Free}]
    BY <1>3, <1>7 DEF Kinds, IdsOf, RowTypes
  <2>3. QED
    BY <1>2, <2>1, <2>2
<1>11. TablesInv
  BY <1>2, <1>4, <1>5, <1>6, <1>7, <1>8, <1>9, <1>10 DEF TablesInv, IInv
<1>12. ShownInv
  BY <1>4 DEF ShownInv
<1>13. page # "none" => Shaped(form)
  <2>1. form = [row |-> CASE page \in {"ports", "gas_types", "objects"} -> [name |-> Blank]
                          [] page = "controllers" -> [port |-> NoChoice, address |-> FirstAddress]
                          [] page = "detectors" -> [port |-> NoChoice, controller |-> NoController,
                                                    gas |-> NoChoice, code |-> Blank]
                          [] page = "rules" -> [object |-> NoChoice]
                          [] OTHER -> Blank,
                rest |-> Blank]
    BY <1>1 DEF PagesInit
  <2>2. CASE page \in {"ports", "gas_types", "objects"}
    BY <2>1, <2>2 DEF Shaped, Fields
  <2>3. CASE page = "controllers"
    BY <2>1, <2>3 DEF Shaped, Fields
  <2>4. CASE page = "detectors"
    BY <2>1, <2>4 DEF Shaped, Fields
  <2>5. CASE page = "rules"
    BY <2>1, <2>5 DEF Shaped, Fields
  <2>6. QED
    BY <1>2, <2>2, <2>3, <2>4, <2>5 DEF Kinds
<1>14. QED
  BY <1>4, <1>11, <1>12, <1>13 DEF PagesInv, FormInv

\* What a page does: a handler of its own, an edit of one of its fields, or what
\* happens elsewhere.
LEMMA PageActions ==
    ASSUME page \in Kinds, PagesNext
    PROVE  \/ /\ UNCHANGED <<mapVars, page, backup>>
              /\ \/ reload \/ _selection_changed \/ new_record \/ save_current \/ delete_selected
                 \/ EditStep
           \/ SetCategory \/ Restored
<1>1. Handlers => \/ reload \/ _selection_changed \/ new_record \/ save_current \/ delete_selected
                  \/ EditStep
  BY Zenon DEF Handlers, EditStep
<1>2. ASSUME NEW p, Page(p) PROVE page = p /\ UNCHANGED <<mapVars, page, backup>>
  BY <1>2 DEF Page
<1>3. PortsPage \/ GasTypesPage \/ LinkageObjects => UNCHANGED <<mapVars, page, backup>> /\ (Handlers \/ EditStep)
  <2>1. page \in {"ports", "gas_types", "objects"} => "name" \in Fields[page] \ {"controller"}
    BY DEF Fields
  <2>2. QED
    BY <1>2, <2>1, Zenon DEF PortsPage, GasTypesPage, LinkageObjects, EditStep
<1>4. ControllersPage => UNCHANGED <<mapVars, page, backup>> /\ (Handlers \/ EditStep)
  <2>1. page = "controllers" => \A f \in {"port", "address"} : f \in Fields[page] \ {"controller"}
    BY DEF Fields
  <2>2. QED
    BY <1>2, <2>1, Zenon DEF ControllersPage, EditStep
<1>5. LinkageRules => UNCHANGED <<mapVars, page, backup>> /\ (Handlers \/ EditStep)
  <2>1. page = "rules" => "object" \in Fields[page] \ {"controller"}
    BY DEF Fields
  <2>2. QED
    BY <1>2, <2>1, Zenon DEF LinkageRules, EditStep
<1>6. DetectorsPage => UNCHANGED <<mapVars, page, backup>> /\ (Handlers \/ EditStep)
  <2>1. page = "detectors" => \A f \in {"port", "gas", "code"} : f \in Fields[page] \ {"controller"}
    BY DEF Fields
  <2>2. QED
    BY <1>2, <2>1, Zenon DEF DetectorsPage, EditStep
<1>7. ~ NoPage
  BY DEF NoPage, Kinds
<1>8. QED
  BY <1>1, <1>3, <1>4, <1>5, <1>6, <1>7, Zenon DEF PagesNext

LEMMA PagesStep == ASSUME PagesInv, [PagesNext]_everything PROVE PagesInv'
<1>1. TablesInv /\ (page # "none" => ShownInv /\ FormInv)
  BY DEF PagesInv
<1>2. CASE page \in Kinds /\ PagesNext
  BY <1>2, PageActions, ReloadStep, SelectionStep, NewRecordStep, SaveStep, DeleteStep,
     EditKeepsInv, OthersStep, RestoredStep
<1>3. CASE page = "none" /\ PagesNext
  <2>1. NoPage
    BY <1>3, Zenon DEF PagesNext, PortsPage, ControllersPage, GasTypesPage, DetectorsPage,
       LinkageObjects, LinkageRules, Page, SetCategory, Restored
  <2>2. AllNext /\ UNCHANGED <<objects, rules, page, rest, backup>>
    BY <2>1 DEF NoPage, linkVars
  <2>3. IInv'
    BY <1>1, <2>2, StepsInvariant DEF TablesInv
  <2>4. Backup!TypeOK' /\ Backup!ReferencesLive' /\ Backup!UniqueAmongLive'
    BY <1>1, <2>2 DEF TablesInv, Backup!TypeOK, Backup!ReferencesLive, Backup!UniqueAmongLive, Backup!Live
  <2>5. TablesInv' /\ page' = "none"
    BY <1>1, <1>3, <2>2, <2>3, <2>4 DEF TablesInv, LinkageOK
  <2>6. QED
    BY <2>5 DEF PagesInv
<1>4. CASE UNCHANGED everything
  <2>1. /\ UNCHANGED <<vars, objects, rules, rest, mapVars, page, backup>>
        /\ UNCHANGED <<shown, loaded, offers, picked, form, touched, since>>
    BY <1>4 DEF everything, allVars, linkVars, pageVars
  <2>2. LinkageOK(objects', rules')
    BY <1>1, <2>1 DEF TablesInv
  <2>3. TablesInv'
    BY <1>1, <2>1, <2>2, LinkageKeepsTables
  <2>4. Table' = Table
    BY <2>1 DEF Table, TableOf, vars
  <2>5. page # "none" => ShownInv' /\ FormInv'
    BY <1>1, <2>1, <2>4 DEF ShownInv, FormInv, Shaped, Agrees, Differing, Full, Live, vars
  <2>6. QED
    BY <2>1, <2>3, <2>5 DEF PagesInv
<1>5. QED
  <2>1. page \in Kinds \union {"none"}
    BY <1>1 DEF TablesInv
  <2>2. QED
    BY <1>2, <1>3, <1>4, <2>1

\* The tables are sound whatever is done on the pages, and the pages show the tables.
THEOREM PagesInvariance == PagesSpec => []PagesInv
<1>1. PagesInv /\ [PagesNext]_everything => PagesInv'
  BY PagesStep
<1>2. QED
  BY <1>1, PagesStart, PTL DEF PagesSpec

\* Neither the pages nor a restored backup leave a live detector whose port, gas type or
\* controller is deleted, a live point whose map is, or a live map without its file.
THEOREM LookupsSucceedOnPages == PagesSpec => []LookupsSucceed
<1>1. PagesInv => LookupsSucceed
  BY DEF PagesInv, TablesInv, IInv, LookupsSucceed
<1>2. QED
  BY <1>1, PagesInvariance, PTL

\* Names, bus addresses and position codes stay unique among live rows.
THEOREM UniqueOnPages == PagesSpec => []UniqueAmongLive
<1>1. PagesInv => UniqueAmongLive
  BY DEF PagesInv, TablesInv, IInv
<1>2. QED
  BY <1>1, PagesInvariance, PTL

\* A row that disappears is the one that was picked on the page: another page
\* deletes none of this one's, and a backup holds none that was deleted.
LEMMA DeletedRow ==
    ASSUME PagesInv, [PagesNext]_everything, page # "none", loaded = {},
           NEW i \in Live(Table), Table'[i] = Gone
    PROVE  i \in DOMAIN shown /\ shown[i] = Full(Table, i)
<1>1. TablesInv /\ ShownInv /\ page \in Kinds
  BY DEF PagesInv, TablesInv
<1>2. Table \in [IdsOf[page] -> RowTypes[page] \union {Free, Gone}] /\ i \in IdsOf[page]
      /\ Table[i] # Gone
  BY <1>1, TableTyped DEF Live
<1>3. CASE UNCHANGED everything
  <2>1. Table' = Table
    BY <1>3 DEF everything, allVars, linkVars, Table, TableOf, vars
  <2>2. QED
    BY <1>2, <2>1
<1>4. ASSUME UNCHANGED <<mapVars, page, backup>>, save_current PROVE FALSE
  <2>1. form.row \in RowTypes[page] /\ \E j \in IdsOf[page] : Table' = [Table EXCEPT ![j] = form.row]
    BY <1>1, <1>4, SavedRow
  <2>2. form.row # Gone
    BY <1>1, <2>1, ShapesOfRows
  <2>3. QED
    BY <1>2, <2>1, <2>2
<1>5. ASSUME UNCHANGED <<mapVars, page, backup>>, delete_selected PROVE i = picked /\ picked \in DOMAIN shown
  <2>1. picked \in DOMAIN shown /\ Deletes(picked) /\ UNCHANGED rest
    BY <1>5 DEF delete_selected
  <2>2. Table' = [Table EXCEPT ![picked] = Gone]
    BY <1>1, <1>5, <2>1, DeletionMarks
  <2>3. QED
    BY <1>2, <2>1, <2>2
<1>6. ASSUME UNCHANGED <<mapVars, page, backup>>,
             reload \/ _selection_changed \/ new_record \/ EditStep
      PROVE  FALSE
  <2>1. UNCHANGED tables
    BY <1>6, Zenon DEF reload, _selection_changed, new_record, EditStep, EditRest, EditController, EditField
  <2>2. Table' = Table
    BY <1>1, <1>6, <2>1, QuietTables
  <2>3. QED
    BY <1>2, <2>2
<1>7. ASSUME SetCategory PROVE FALSE
  BY <1>1, <1>2, <1>7, OthersKeepRows
<1>8. ASSUME Restored PROVE FALSE
  <2>1. Table' = backup[page]
    BY <1>1, <1>8 DEF Restored, Table, TableOf, Kinds
  <2>2. QED
    BY <1>1, <1>2, <2>1 DEF TablesInv
<1>9. QED
  <2>1. PagesNext => i = picked /\ picked \in DOMAIN shown
    BY <1>1, <1>4, <1>5, <1>6, <1>7, <1>8, PageActions
  <2>2. i \in DOMAIN shown
    BY <1>3, <2>1, <1>2 DEF everything, Table, TableOf
  <2>3. QED
    BY <1>1, <2>2 DEF ShownInv

\* What a page asks to delete is what it shows and the table holds: unless it failed
\* to load, or a backup was restored under it.
THEOREM DeletedAsConfirmedAlways == PagesSpec => DeletedAsConfirmed
<1>1. PagesInv /\ [PagesNext]_everything =>
          [page # "none" /\ loaded = {} =>
              \A i \in Live(Table) : Table'[i] = Gone => i \in DOMAIN shown /\ shown[i] = Full(Table, i)]_everything
  BY DeletedRow
<1>2. QED
  BY <1>1, PagesInvariance, PTL DEF PagesSpec, DeletedAsConfirmed

\* A box that shows its first item is not saved.
LEMMA NoChoiceIsNotSaved ==
    ASSUME NEW kind \in Kinds, NEW row \in RowTypes[kind], NEW f \in Fields[kind] \cap {"port", "gas", "object"}
    PROVE  row[f] # NoChoice
<1>1. NoChoice \notin Ports \union GasTypes \union Objects
  BY PagesAssumption
<1>2. CASE kind = "controllers"
  BY <1>1, <1>2 DEF RowTypes, Fields, ControllerRow
<1>3. CASE kind = "detectors"
  BY <1>1, <1>3 DEF RowTypes, Fields, DetectorRow
<1>4. CASE kind = "rules"
  BY <1>1, <1>4 DEF RowTypes, Fields, RuleRow
<1>5. CASE kind \in {"ports", "gas_types", "objects"}
  BY <1>5 DEF Fields
<1>6. QED
  BY <1>2, <1>3, <1>4, <1>5 DEF Kinds

\* A row that is there before and after a step keeps the columns in which the form
\* agreed with it.
LEMMA KeptRow ==
    ASSUME PagesInv, [PagesNext]_everything, page # "none", "restored" \notin since, ~ Restored,
           NEW i \in Live(Table), i \in Live(Table)'
    PROVE  Changed(i) \subseteq Differing(touched, since)
<1>1. TablesInv /\ FormInv /\ page \in Kinds
  BY DEF PagesInv, TablesInv
<1>2. Table \in [IdsOf[page] -> RowTypes[page] \union {Free, Gone}] /\ i \in IdsOf[page]
      /\ Table[i] # Free /\ Table[i] \in RowTypes[page] /\ i \in DOMAIN rest
  BY <1>1, TableTyped, PlacesOfRest DEF Live
<1>3. DOMAIN Table[i] = Fields[page]
  BY <1>1, <1>2, ShapesOfRows
<1>4. Table'[i] = Table[i] /\ rest'[i] = rest[i] => Changed(i) = {}
  BY DEF Changed
<1>5. CASE UNCHANGED everything
  <2>1. Table' = Table /\ rest' = rest
    BY <1>5 DEF everything, allVars, linkVars, Table, TableOf, vars
  <2>2. QED
    BY <1>4, <2>1
<1>6. ASSUME UNCHANGED <<mapVars, page, backup>>, save_current PROVE Changed(i) \subseteq Differing(touched, since)
  <2>1. form.row \in RowTypes[page]
    BY <1>1, <1>6, SavedRow
  <2>2. PICK j \in IdsOf[page] :
            /\ IF picked = None THEN Table[j] = Free ELSE j = picked
            /\ Table' = [Table EXCEPT ![j] = form.row] /\ rest' = [rest EXCEPT ![j] = form.rest]
    BY <1>1, <1>6, SavedRow
  <2>3. CASE j # i
    BY <1>2, <1>4, <2>2, <2>3
  <2>4. CASE j = i
    <3>1. picked # None /\ picked = i
      BY <1>2, <2>2, <2>4
    <3>2. Agrees(form, Table[i], rest[i], Differing(touched, since))
      BY <1>1, <3>1 DEF FormInv
    <3>3. Table'[i] = form.row /\ rest'[i] = form.rest
      BY <1>2, <2>2, <2>4
    <3>4. \A f \in Fields[page] \ Differing(touched, since) : form.row[f] = Table[i][f]
      <4>1. SUFFICES ASSUME NEW f \in Fields[page] \ Differing(touched, since), form.row[f] # Table[i][f]
                     PROVE  FALSE
        OBVIOUS
      <4>2. f \in {"port", "gas", "object"} /\ form.row[f] = NoChoice
        BY <3>2, <4>1 DEF Agrees
      <4>3. QED
        BY <1>1, <2>1, <4>2, NoChoiceIsNotSaved
    <3>5. "rest" \notin Differing(touched, since) => form.rest = rest[i]
      BY <3>2 DEF Agrees
    <3>6. QED
      BY <1>3, <3>3, <3>4, <3>5 DEF Changed
  <2>5. QED
    BY <2>3, <2>4
<1>7. ASSUME UNCHANGED <<mapVars, page, backup>>, delete_selected PROVE Changed(i) = {}
  <2>1. Deletes(picked) /\ UNCHANGED rest
    BY <1>7 DEF delete_selected
  <2>2. picked \in Live(Table) /\ Table' = [Table EXCEPT ![picked] = Gone]
    BY <1>1, <1>7, <2>1, DeletionMarks
  <2>3. picked # i
    BY <1>2, <2>2 DEF Live
  <2>4. QED
    BY <1>2, <1>4, <2>1, <2>2, <2>3
<1>8. ASSUME UNCHANGED <<mapVars, page, backup>>,
             reload \/ _selection_changed \/ new_record \/ EditStep
      PROVE  Changed(i) = {}
  <2>1. UNCHANGED tables
    BY <1>8, Zenon DEF reload, _selection_changed, new_record, EditStep, EditRest, EditController, EditField
  <2>2. Table' = Table /\ rest' = rest
    BY <1>1, <1>8, <2>1, QuietTables
  <2>3. QED
    BY <1>4, <2>2
<1>9. ASSUME SetCategory PROVE Changed(i) = {}
  BY <1>1, <1>4, <1>9, OthersKeepRows
<1>10. QED
  <2>1. PagesNext => Changed(i) = {} \/ Changed(i) \subseteq Differing(touched, since)
    BY <1>1, <1>6, <1>7, <1>8, <1>9, PageActions
  <2>2. QED
    BY <1>5, <2>1

\* What is saved of a row is what was edited, on every page and whatever is loaded,
\* deleted and saved meanwhile, but for what reloads put into the form themselves.
THEOREM SaveKeepsTheRestAlways == PagesSpec => SaveKeepsTheRest
<1>1. PagesInv /\ [PagesNext]_everything =>
          [page # "none" /\ "restored" \notin since /\ ~ Restored =>
              \A i \in Live(Table) : i \in Live(Table)' =>
                  Changed(i) \subseteq touched
                      \union (IF "reloaded" \in since THEN {"rest"} ELSE {})
                      \union (IF "dangling" \in since THEN {"port", "controller", "object"} ELSE {})]_everything
  BY KeptRow DEF Differing
<1>2. QED
  BY <1>1, PagesInvariance, PTL DEF PagesSpec, SaveKeepsTheRest
=============================================================================

---------------------------- MODULE DeviceConfig ----------------------------
(***************************************************************************)
(* Device configuration (services/device_config_service.py and             *)
(* db/repositories/device_config_repository.py) and what the poller makes  *)
(* of it (AcquisitionService._load_polling_configs).                       *)
(*                                                                         *)
(* Every operation is one transaction opened with BEGIN IMMEDIATE, hence   *)
(* one step.  Rows are soft-deleted and ids are never used again.  A call  *)
(* the service refuses changes nothing and is no step.  Texts, ranges and  *)
(* channel parameters, which no operation compares with another row, and   *)
(* is_enabled, which none of them reads, are left out.                     *)
(***************************************************************************)
EXTENDS FiniteSets

CONSTANTS Ports, Controllers, GasTypes, Detectors,  \* ids the tables may hand out
          Names,          \* names of ports and of gas types
          Addresses,      \* unit addresses of controllers
          Codes,          \* position codes of detectors
          NoController,   \* controller_id IS NULL: the detector is a probe
          Free,           \* the id has not been handed out yet
          Gone            \* the row has its deleted_at set

PortRow       == [name : Names]
ControllerRow == [port : Ports, address : Addresses]
GasTypeRow    == [name : Names]
DetectorRow   == [port : Ports, controller : Controllers \union {NoController},
                  gas : GasTypes, code : Codes]

ASSUME RowsAssumption ==
    /\ {Free, Gone} \cap (PortRow \union ControllerRow \union GasTypeRow \union DetectorRow) = {}
    /\ Free # Gone
    /\ NoController \notin Controllers

VARIABLES ports, controllers, gasTypes, detectors

vars == <<ports, controllers, gasTypes, detectors>>

Live(table) == {i \in DOMAIN table : table[i] \notin {Free, Gone}}

\* find_active_by_name, and the row found is not the one being saved.
NameTaken(table, i, n) == \E j \in Live(table) \ {i} : table[j].name = n

\* find_active_by_port_address.
AddressTaken(i, p, a) ==
    \E j \in Live(controllers) \ {i} : controllers[j].port = p /\ controllers[j].address = a

\* find_active_by_position_code.
CodeTaken(i, c) == \E j \in Live(detectors) \ {i} : detectors[j].code = c

\* Mutant: only detectors behind a controller are counted.
BugPortUnused(p) ==
    \A d \in Live(detectors) : detectors[d].controller # NoController => detectors[d].port # p

\* count_for_port, count_for_controller, count_for_gas_type of a row are 0.
PortUnused(p)       == \A d \in Live(detectors) : detectors[d].port # p
ControllerUnused(k) == \A d \in Live(detectors) : detectors[d].controller # k
GasTypeUnused(g)    == \A d \in Live(detectors) : detectors[d].gas # g

-----------------------------------------------------------------------------
Init == /\ ports       = [p \in Ports |-> Free]
        /\ controllers = [k \in Controllers |-> Free]
        /\ gasTypes    = [g \in GasTypes |-> Free]
        /\ detectors   = [d \in Detectors |-> Free]

(* A save with no id takes a new one; a save with an id needs a live row.  *)
SavePort(p, row) ==
    /\ ports[p] # Gone
    /\ ~ NameTaken(ports, p, row.name)
    /\ ports' = [ports EXCEPT ![p] = row]
    /\ UNCHANGED <<controllers, gasTypes, detectors>>

DeletePort(p) ==
    /\ p \in Live(ports) /\ PortUnused(p)
    /\ ports' = [ports EXCEPT ![p] = Gone]
    /\ UNCHANGED <<controllers, gasTypes, detectors>>

\* The port must be live; the detectors behind the controller are not asked.
SaveController(k, row) ==
    /\ controllers[k] # Gone
    /\ row.port \in Live(ports)
    /\ ~ AddressTaken(k, row.port, row.address)
    /\ controllers' = [controllers EXCEPT ![k] = row]
    /\ UNCHANGED <<ports, gasTypes, detectors>>

DeleteController(k) ==
    /\ k \in Live(controllers) /\ ControllerUnused(k)
    /\ controllers' = [controllers EXCEPT ![k] = Gone]
    /\ UNCHANGED <<ports, gasTypes, detectors>>

SaveGasType(g, row) ==
    /\ gasTypes[g] # Gone
    /\ ~ NameTaken(gasTypes, g, row.name)
    /\ gasTypes' = [gasTypes EXCEPT ![g] = row]
    /\ UNCHANGED <<ports, controllers, detectors>>

DeleteGasType(g) ==
    /\ g \in Live(gasTypes) /\ GasTypeUnused(g)
    /\ gasTypes' = [gasTypes EXCEPT ![g] = Gone]
    /\ UNCHANGED <<ports, controllers, detectors>>

\* What _normalize_detector looks up in the other tables.
ValidDetector(row) ==
    /\ row.port \in Live(ports)
    /\ row.controller # NoController =>
           /\ row.controller \in Live(controllers)
           /\ controllers[row.controller].port = row.port
    /\ row.gas \in Live(gasTypes)

SaveDetector(d, row) ==
    /\ detectors[d] # Gone
    /\ ValidDetector(row)
    /\ ~ CodeTaken(d, row.code)
    /\ detectors' = [detectors EXCEPT ![d] = row]
    /\ UNCHANGED <<ports, controllers, gasTypes>>

DeleteDetector(d) ==
    /\ d \in Live(detectors)
    /\ detectors' = [detectors EXCEPT ![d] = Gone]
    /\ UNCHANGED <<ports, controllers, gasTypes>>

\* Mutant: a code that is twice in the file is not noticed.
BugImportable(new) == \A d \in DOMAIN new : ~ CodeTaken(d, new[d].code)

\* The rows of a file that import_detectors creates, by their new ids: the
\* code of each is neither in the table nor earlier in the file.
Importable(new) ==
    /\ \A d \in DOMAIN new : ~ CodeTaken(d, new[d].code)
    /\ \A d, e \in DOMAIN new : d # e => new[d].code # new[e].code

\* The other rows of the file are reported and skipped; one transaction.
ImportDetectors(ids) ==
    /\ \A d \in ids : detectors[d] = Free
    /\ \E new \in [ids -> {row \in DetectorRow : ValidDetector(row)}] :
           /\ Importable(new)
           /\ detectors' = [d \in Detectors |-> IF d \in ids THEN new[d] ELSE detectors[d]]
    /\ UNCHANGED <<ports, controllers, gasTypes>>

ConfigNext ==
    \/ \E p \in Ports : DeletePort(p) \/ \E row \in PortRow : SavePort(p, row)
    \/ \E k \in Controllers :
           DeleteController(k) \/ \E row \in ControllerRow : SaveController(k, row)
    \/ \E g \in GasTypes : DeleteGasType(g) \/ \E row \in GasTypeRow : SaveGasType(g, row)
    \/ \E d \in Detectors :
           DeleteDetector(d) \/ \E row \in DetectorRow : SaveDetector(d, row)
    \/ \E ids \in SUBSET Detectors : ids # {} /\ ImportDetectors(ids)

Spec == Init /\ [][ConfigNext]_vars
-----------------------------------------------------------------------------
(* What the poller reads at start: the targets of each port.               *)

\* The detectors that get a target, when no row is disabled: the loader skips
\* a detector without its port or controller.
Polled == {d \in Live(detectors) :
              /\ detectors[d].port \in Live(ports)
              /\ detectors[d].controller \in Live(controllers) \union {NoController}}

\* Where a target behind a controller is polled: the port is the detector's,
\* the address its controller's.
BusAddress(d) == <<detectors[d].port, controllers[detectors[d].controller].address>>
-----------------------------------------------------------------------------
\* The tables hold rows of their columns.
TypeOK == /\ ports       \in [Ports -> PortRow \union {Free, Gone}]
          /\ controllers \in [Controllers -> ControllerRow \union {Free, Gone}]
          /\ gasTypes    \in [GasTypes -> GasTypeRow \union {Free, Gone}]
          /\ detectors   \in [Detectors -> DetectorRow \union {Free, Gone}]

(* A live detector refers to a live port, a live gas type and, unless it   *)
(* is a probe, a live controller, whatever was deleted, saved or imported  *)
(* since it was saved: no operation looks at all the tables.               *)
ReferencesLive ==
    \A d \in Live(detectors) :
        /\ detectors[d].port \in Live(ports)
        /\ detectors[d].gas \in Live(gasTypes)
        /\ detectors[d].controller # NoController =>
               detectors[d].controller \in Live(controllers)

(* The partial unique indexes of migration 0003 never refuse a row: names, *)
(* bus addresses and position codes are unique among live rows.  The       *)
(* import does not catch an IntegrityError, so one would cost the file.    *)
UniqueAmongLive ==
    /\ \A p, q \in Live(ports) : ports[p].name = ports[q].name => p = q
    /\ \A g, h \in Live(gasTypes) : gasTypes[g].name = gasTypes[h].name => g = h
    /\ \A j, k \in Live(controllers) :
           /\ controllers[j].port = controllers[k].port
           /\ controllers[j].address = controllers[k].address
           => j = k
    /\ \A d, e \in Live(detectors) : detectors[d].code = detectors[e].code => d = e

(* Two targets polled at the same address of the same port are behind the  *)
(* same controller, so an answer on the bus belongs to one controller.     *)
BusAddressIsOneController ==
    \A d, e \in Polled :
        /\ NoController \notin {detectors[d].controller, detectors[e].controller}
        /\ BusAddress(d) = BusAddress(e)
        => detectors[d].controller = detectors[e].controller
=============================================================================

----------------------------- MODULE ConfigPages -----------------------------
(***************************************************************************)
(* The pages on which the administrator edits the configuration:           *)
(* ui/settings/ports_page.py, controllers_page.py, detectors_page.py,      *)
(* gas_types_page.py and the two tabs of linkage_page.py.  Each keeps the  *)
(* rows it loaded, the row selected, the row being edited and a form, and  *)
(* calls the services of DeviceConfig and of linkage_service.py.           *)
(*                                                                         *)
(* A behaviour follows one page (or none: then it is one of MapConfig).    *)
(* The handlers run in the GUI thread, a save and the reload after it in   *)
(* one of them.  What the other pages do reaches this one when it is shown *)
(* again and reloads.  A call that is refused changes nothing on the page. *)
(***************************************************************************)
EXTENDS MapConfig, Naturals

CONSTANTS Objects, Rules,   \* ids of linkage_objects and linkage_rules
          Rest,             \* values of the columns not looked at below
          Fresh,            \* those of a form just cleared
          Blank,            \* a field that was cleared
          NoChoice,         \* a combo box shows its first item
          None,             \* no row is selected, a new row is edited
          Pages,            \* the pages checked
          MaxEdited,        \* bound: fields edited between two saves
          MaxCalls,         \* bound: calls of the services
          MaxOthers         \* bound: those from elsewhere

ObjectRow == [name : Names]
RuleRow   == [object : Objects]

ASSUME PagesAssumption ==
    /\ {Free, Gone} \cap (ObjectRow \union RuleRow) = {} /\ Fresh \in Rest /\ Blank \notin Rest
    /\ Detectors \cap GasTypes = {} /\ NoChoice \notin Ports \union GasTypes \union Objects
    /\ Pages \subseteq {"none", "ports", "controllers", "gas_types", "detectors", "objects", "rules"}
    /\ {MaxEdited, MaxCalls, MaxOthers} \subseteq Nat

VARIABLES page,      \* the page followed, or "none"
          objects, rules,
          rest,      \* the other columns of every row: of detectors and gas types the limits
          backup,    \* the tables of the backup at hand
          shown,     \* _rows
          loaded,    \* history: why they may differ from the table: "failed", "restored"
          offers,    \* what the combo boxes offer, and the lists behind them
          picked,    \* _selected_id and _editing_id, which are always set together
          form,      \* the columns, and the rest
          touched,   \* history: fields edited since the row was chosen or saved
          since,     \* history: what happened since: "reloaded", "restored", "dangling"
          calls      \* counts for the bounds

linkVars == <<objects, rules>>
pageVars == <<shown, loaded, offers, picked, form, touched, since>>
everything == <<allVars, linkVars, page, rest, backup, pageVars, calls>>

TableOf == [ports |-> ports, controllers |-> controllers, gas_types |-> gasTypes,
            detectors |-> detectors, objects |-> objects, rules |-> rules]
RowTypes == [ports |-> PortRow, controllers |-> ControllerRow, gas_types |-> GasTypeRow,
             detectors |-> DetectorRow, objects |-> ObjectRow, rules |-> RuleRow]
Table == TableOf[page]

\* A field edited by hand takes one of these.
Choices(field) ==
    CASE field = "name"    -> Names
      [] field = "address" -> Addresses
      [] field = "code"    -> Codes
      [] field = "port"    -> offers.port
      [] field = "gas"     -> offers.gas
      [] field = "object"  -> offers.object
-----------------------------------------------------------------------------
(* The services of linkage.                                                *)

SaveObject(o, row) ==
    /\ objects[o] # Gone /\ ~ NameTaken(objects, o, row.name)
    /\ objects' = [objects EXCEPT ![o] = row] /\ UNCHANGED <<vars, rules>>

\* The rules that name the object are not asked.
DeleteObject(o) ==
    /\ o \in Live(objects) /\ objects' = [objects EXCEPT ![o] = Gone]
    /\ UNCHANGED <<vars, rules>>

SaveRule(r, row) ==
    /\ rules[r] # Gone /\ row.object \in Live(objects)
    /\ rules' = [rules EXCEPT ![r] = row] /\ UNCHANGED <<vars, objects>>

DeleteRule(r) ==
    /\ r \in Live(rules) /\ rules' = [rules EXCEPT ![r] = Gone]
    /\ UNCHANGED <<vars, objects>>
-----------------------------------------------------------------------------
(* Loading.                                                                *)

Full(table, i) == [row |-> table[i], rest |-> rest[i]]
LoadedRows == [i \in Live(Table) |-> Full(Table, i)]

\* The lists read beside the rows.
ListsOf ==
    [port |-> IF page \in {"controllers", "detectors"} THEN Live(ports) ELSE {},
     gas |-> IF page = "detectors" THEN Live(gasTypes) ELSE {},
     object |-> IF page = "rules" THEN Live(objects) ELSE {},
     portOf |-> [k \in IF page = "detectors" THEN Live(controllers) ELSE {} |-> controllers[k].port],
     limits |-> [g \in IF page = "detectors" THEN Live(gasTypes) ELSE {} |-> rest[g]]]

\* _set_combo: a value that is not offered leaves the box as it was.
_set_combo(current, offered, value) == IF value \in offered THEN value ELSE current

\* Mutant: a value that is not offered selects the first item.
BugFillCombo(current, offered) ==
    IF offered = {} THEN NoChoice ELSE CHOOSE v \in offered : TRUE

\* _fill_combo, _reload_ports: cleared, filled, and set to what it showed.
_fill_combo(current, offered) == _set_combo(NoChoice, offered, current)

\* _filter_controller_combo: the controllers of the port, after "no controller".
Filtered(of, p) == {NoController} \union {k \in DOMAIN of.portOf : p \in {NoChoice, of.portOf[k]}}
_filter_controller_combo(of, row) ==
    [row EXCEPT !.controller = _set_combo(NoController, Filtered(of, row.port), @)]

_apply_selected_gas_defaults(of, gas, otherwise) ==
    IF gas \in DOMAIN of.limits THEN of.limits[gas] ELSE otherwise

\* The boxes of the form are filled again; on the detectors page the gas type that
\* is set again brings its default limits with it.
Refilled(of) ==
    CASE page = "controllers" -> [form EXCEPT !.row.port = _fill_combo(@, of.port)]
      [] page = "rules" -> [form EXCEPT !.row.object = _fill_combo(@, of.object)]
      [] page = "detectors" ->
           LET row == [form.row EXCEPT !.port = _fill_combo(@, of.port), !.gas = _fill_combo(@, of.gas)]
           IN  [row  |-> _filter_controller_combo(of, row),
                rest |-> _apply_selected_gas_defaults(of, row.gas, form.rest)]
      [] OTHER -> form

\* Mutant: rows known already are not read again.
BugLoads(now) ==
    /\ shown' = [i \in Live(Table)' |-> IF i \in DOMAIN shown THEN shown[i] ELSE LoadedRows'[i]]
    /\ loaded' = {} /\ offers' = ListsOf' /\ form' = Refilled(ListsOf')
    /\ since' = IF picked = None THEN {} ELSE now \union {"reloaded"}

\* A reload, of tables just written: the ids stay, and so does the form.
Loads(now) ==
    /\ shown' = LoadedRows' /\ loaded' = {} /\ offers' = ListsOf' /\ form' = Refilled(ListsOf')
    /\ since' = IF picked = None THEN {} ELSE
                   now \union (IF page = "detectors" THEN {"reloaded"} ELSE {})
                       \union (IF page = "detectors" /\ form'.row.controller # form.row.controller
                                THEN {"dangling"} ELSE {})

\* It fails: the device pages keep their rows but show none, and of the lists those
\* read before the failure are new; the linkage page keeps nothing.
LoadFails(now) ==
    /\ IF page \in {"objects", "rules"} THEN shown' = [i \in {} |-> NoChoice] ELSE UNCHANGED shown
    /\ loaded' = loaded \union {"failed"}
    /\ offers' \in {offers} \union
           IF page # "detectors" THEN {}
           ELSE {[offers EXCEPT !.portOf = ListsOf'.portOf],
                 [offers EXCEPT !.portOf = ListsOf'.portOf, !.limits = ListsOf'.limits]}
    /\ since' = now /\ UNCHANGED form

Reloads(now) == Loads(now) \/ LoadFails(now)
-----------------------------------------------------------------------------
(* The handlers of a page.                                                 *)

tables == <<vars, linkVars, rest>>

reload == UNCHANGED <<tables, picked, touched, calls>> /\ Reloads(since)

\* A row is clicked: the form shows it, as far as the boxes offer what it refers to.
_apply_row(row) ==
    CASE page = "controllers" ->
           [row EXCEPT !.port = _set_combo(form.row.port, offers.port, @)]
      [] page = "rules" ->
           [row EXCEPT !.object = _set_combo(form.row.object, offers.object, @)]
      [] page = "detectors" ->
           LET p == _set_combo(form.row.port, offers.port, row.port)
               filtered == _filter_controller_combo(offers, [form.row EXCEPT !.port = p])
           IN  [row EXCEPT !.port = p,
                   !.controller = _set_combo(filtered.controller, Filtered(offers, p), @),
                   !.gas = _set_combo(form.row.gas, offers.gas, @)]
      [] OTHER -> row

_selection_changed ==
    \/ \E i \in DOMAIN shown :
          /\ "failed" \notin loaded
          /\ picked' = i /\ touched' = {}
          /\ form' = [row |-> _apply_row(shown[i].row), rest |-> shown[i].rest]
          /\ since' = loaded \union IF form'.row # shown[i].row THEN {"dangling"} ELSE {}
          /\ UNCHANGED <<tables, shown, loaded, offers, calls>>
    \/ /\ picked' = None
       /\ touched' = {} /\ since' = {} /\ UNCHANGED <<tables, shown, loaded, offers, form, calls>>

FirstAddress == CHOOSE a \in Addresses : TRUE
\* new_record: the texts are cleared, the boxes stay.
Cleared ==
    CASE page \in {"ports", "gas_types", "objects"} ->
           [row |-> [name |-> Blank], rest |-> IF page = "ports" THEN form.rest ELSE Fresh]
      [] page = "controllers" -> [form EXCEPT !.row.address = FirstAddress, !.rest = Blank]
      [] page = "detectors" -> [row |-> [form.row EXCEPT !.code = Blank], rest |-> Fresh]
      [] page = "rules" -> [form EXCEPT !.rest = Blank]

new_record ==
    /\ picked' = None /\ form' = Cleared /\ touched' = {}
    /\ since' = {}
    /\ UNCHANGED <<tables, shown, loaded, offers, calls>>

Touches(fields) == /\ touched' = touched \union fields
                   /\ Cardinality(touched') <= MaxEdited

\* A field is edited; a port chosen by hand filters the controllers, a gas type
\* chosen by hand brings its limits.
EditField(field) ==
    /\ \E v \in Choices(field) :
          LET row == [form.row EXCEPT ![field] = v]
          IN  /\ form.row[field] # v
              /\ form' = CASE page = "detectors" /\ field = "port" ->
                                [form EXCEPT !.row = _filter_controller_combo(offers, row)]
                           [] field = "gas" ->
                                [row |-> row, rest |-> _apply_selected_gas_defaults(offers, v, form.rest)]
                           [] OTHER -> [form EXCEPT !.row = row]
    /\ Touches({field} \union
           CASE page = "detectors" /\ field = "port" -> {"controller"}
              [] field = "gas" -> {"rest"} [] OTHER -> {})
    /\ UNCHANGED <<tables, shown, loaded, offers, picked, since, calls>>

EditController ==
    /\ \E k \in Filtered(offers, form.row.port) \ {form.row.controller} :
          form' = [form EXCEPT !.row.controller = k]
    /\ Touches({"controller"})
    /\ UNCHANGED <<tables, shown, loaded, offers, picked, since, calls>>

EditRest ==
    /\ \E v \in Rest \ {form.rest} : form' = [form EXCEPT !.rest = v]
    /\ Touches({"rest"})
    /\ UNCHANGED <<tables, shown, loaded, offers, picked, since, calls>>

\* One call more, of the page or from elsewhere.
Own    == calls.own + calls.others < MaxCalls /\ calls' = [calls EXCEPT !.own = @ + 1]
Others == /\ calls.own + calls.others < MaxCalls /\ calls.others < MaxOthers
          /\ calls' = [calls EXCEPT !.others = @ + 1]

\* The id of the command: a new one is given, one that is gone is not found.
Target(i) == IF picked = None THEN Table[i] = Free ELSE i = picked /\ i \in Live(Table)

\* The service of the page.
Saves(i, row) ==
    \/ /\ UNCHANGED linkVars
       /\ \/ page = "ports" /\ SavePort(i, row)
          \/ page = "controllers" /\ SaveController(i, row)
          \/ page = "gas_types" /\ SaveGasType(i, row)
          \/ page = "detectors" /\ SaveDetector(i, row)
    \/ page = "objects" /\ SaveObject(i, row)
    \/ page = "rules" /\ SaveRule(i, row)

Deletes(i) ==
    \/ /\ UNCHANGED linkVars
       /\ \/ page = "ports" /\ DeletePort(i)
          \/ page = "controllers" /\ DeleteController(i)
          \/ page = "gas_types" /\ DeleteGasType(i)
          \/ page = "detectors" /\ DeleteDetector(i)
    \/ page = "objects" /\ DeleteObject(i)
    \/ page = "rules" /\ DeleteRule(i)

\* validate_form, the service, and the reload; what is in the form is saved.
save_current ==
    /\ form.row \in RowTypes[page] /\ form.rest \in Rest
    /\ \E i \in DOMAIN Table :
          /\ Target(i) /\ Saves(i, form.row) /\ rest' = [rest EXCEPT ![i] = form.rest]
    /\ Own /\ Reloads({}) /\ touched' = {} /\ UNCHANGED picked

\* The row is looked up among the loaded ones and confirmed.
delete_selected ==
    /\ picked \in DOMAIN shown
    /\ Deletes(picked) /\ UNCHANGED rest
    /\ Own /\ Reloads(since) /\ UNCHANGED <<picked, touched>>
-----------------------------------------------------------------------------
(* The pages.                                                              *)

Handlers == \/ reload \/ _selection_changed \/ new_record \/ EditRest
            \/ save_current \/ delete_selected

Page(p) == page = p /\ UNCHANGED <<mapVars, page, backup>>

PortsPage       == Page("ports") /\ (Handlers \/ EditField("name"))
ControllersPage == Page("controllers") /\ (Handlers \/ EditField("port") \/ EditField("address"))
GasTypesPage    == Page("gas_types") /\ (Handlers \/ EditField("name"))
LinkageObjects  == Page("objects") /\ (Handlers \/ EditField("name"))
LinkageRules    == Page("rules") /\ (Handlers \/ EditField("object"))
DetectorsPage   == Page("detectors") /\ (\/ Handlers \/ EditController \/ EditField("port")
                                        \/ EditField("gas") \/ EditField("code"))

\* Another category of the device configuration, or the other tab; the rows of this
\* page are only added to, by an import of detectors; it reads something that changed.
SetCategory ==
    /\ Others /\ UNCHANGED <<mapVars, page, backup>>
    /\ \/ /\ page \in {"ports", "controllers", "gas_types", "detectors"}
          /\ ConfigNext /\ UNCHANGED <<linkVars, rest>>
          /\ \A i \in Live(Table) : Table'[i] = Table[i]
          /\ page # "detectors" => Table' = Table
          /\ ListsOf' # ListsOf \/ Table' # Table
       \/ /\ page = "detectors" /\ \E g \in Live(gasTypes), v \in Rest : rest' = [rest EXCEPT ![g] = v]
          /\ UNCHANGED <<vars, linkVars>>
       \/ /\ page = "rules" /\ UNCHANGED rest
          /\ \E o \in Objects : DeleteObject(o) \/ \E row \in ObjectRow : SaveObject(o, row)
    /\ Reloads(since) /\ UNCHANGED <<picked, touched>>

\* A backup is restored: the pages are not told, and ids given since are given again.
Restored ==
    /\ page # "none" /\ Others
    /\ ports' = backup.ports /\ controllers' = backup.controllers /\ gasTypes' = backup.gas_types
    /\ detectors' = backup.detectors /\ objects' = backup.objects /\ rules' = backup.rules
    /\ rest' = [i \in DOMAIN rest |-> Fresh]
    /\ loaded' = loaded \union {"restored"} /\ since' = IF picked = None THEN {} ELSE since \union {"restored"}
    /\ UNCHANGED <<mapVars, page, backup, shown, offers, picked, form, touched>>

\* Without a page, the services in any order.
NoPage == page = "none" /\ AllNext /\ UNCHANGED <<linkVars, page, rest, backup, pageVars, calls>>
-----------------------------------------------------------------------------
NoLists == [port |-> {}, gas |-> {}, object |-> {}, portOf |-> <<>>, limits |-> <<>>]

\* A page is opened on a configuration there was: the table it edits has one row,
\* those it refers to are full, and the others empty.
Opened(kind, ids, rowType, of) ==
    IF page = kind THEN {[i \in ids |-> IF i = j THEN row ELSE Free] : j \in ids, row \in rowType}
    ELSE IF page \in of THEN [ids -> rowType] ELSE {[i \in ids |-> Free]}

PagesInit ==
    /\ page \in Pages
    /\ ports \in Opened("ports", Ports, PortRow, {"controllers", "detectors"})
    /\ gasTypes \in Opened("gas_types", GasTypes, GasTypeRow, {"detectors"})
    /\ controllers \in Opened("controllers", Controllers, ControllerRow, {"detectors"})
    /\ detectors \in Opened("detectors", Detectors, DetectorRow, {})
    /\ objects \in Opened("objects", Objects, ObjectRow, {"rules"})
    /\ rules \in Opened("rules", Rules, RuleRow, {})
    /\ UniqueAmongLive /\ ReferencesLive
    /\ \A o, u \in Live(objects) : objects[o].name = objects[u].name => o = u
    /\ \A r \in Live(rules) : rules[r].object \in Live(objects)
    /\ maps = [m \in Maps |-> Free] /\ points = [q \in Points |-> Free]
    /\ files = [f \in Files |-> "none"] /\ upload = NoUpload
    /\ rest = [i \in Ports \union Controllers \union GasTypes \union Detectors \union Objects \union Rules |-> Fresh]
    /\ backup = TableOf
    /\ shown = [i \in {} |-> NoChoice] /\ loaded = {} /\ offers = NoLists
    /\ picked = None /\ touched = {} /\ since = {} /\ calls = [own |-> 0, others |-> 0]
    /\ form = [row |-> CASE page \in {"ports", "gas_types", "objects"} -> [name |-> Blank]
                         [] page = "controllers" -> [port |-> NoChoice, address |-> FirstAddress]
                         [] page = "detectors" -> [port |-> NoChoice, controller |-> NoController,
                                                   gas |-> NoChoice, code |-> Blank]
                         [] page = "rules" -> [object |-> NoChoice]
                         [] OTHER -> Blank,
              rest |-> Blank]

PagesNext == \/ PortsPage \/ ControllersPage \/ GasTypesPage \/ DetectorsPage
             \/ LinkageObjects \/ LinkageRules \/ SetCategory \/ Restored \/ NoPage

PagesSpec == PagesInit /\ [][PagesNext]_everything
-----------------------------------------------------------------------------
\* The row a page deletes is the row it had confirmed: it was as shown, unless the
\* page failed to load since it changed, or a backup was restored under it.
DeletedAsConfirmed ==
    [][page # "none" /\ loaded = {} =>
          \A i \in Live(Table) : Table'[i] = Gone => i \in DOMAIN shown /\ shown[i] = Full(Table, i)]_everything

Changed(i) ==
    {f \in DOMAIN Table[i] : Table'[i][f] # Table[i][f]} \union IF rest'[i] # rest[i] THEN {"rest"} ELSE {}

\* A save changes of a row that there was only the fields edited since it was chosen,
\* whatever was loaded, deleted and saved meanwhile: but a reload puts the default
\* limits of the gas type into the form of a detector, a box that does not offer what
\* the row refers to goes on showing something else, and a restored backup changes
\* the row behind the form.
SaveKeepsTheRest ==
    [][page # "none" /\ "restored" \notin since /\ ~ Restored =>
          \A i \in Live(Table) : i \in Live(Table)' =>
              Changed(i) \subseteq touched
                  \union (IF "reloaded" \in since THEN {"rest"} ELSE {})
                  \union (IF "dangling" \in since THEN {"port", "controller", "object"} ELSE {})]_everything
=============================================================================

------------------------------- MODULE MapPage -------------------------------
(***************************************************************************)
(* The map page (ui/map/map_page.py, map_canvas.py, map_point_item.py,     *)
(* view_models.py) over services/map_service.py: a list of maps, the map   *)
(* shown with its points, and the places to which points were dragged and  *)
(* that are not saved yet.                                                 *)
(*                                                                         *)
(* The details of a clicked point are left out: they only tell.            *)
(* Everything runs in the GUI thread.  A refresh that the readings ask for *)
(* may fall between two moves of a drag and while a dialog is open.  Every *)
(* read may be refused (the map is gone) or fail: get_map_runtime_view     *)
(* raises when the database does, which ends the handler it was called in. *)
(***************************************************************************)
EXTENDS Naturals, FiniteSets

CONSTANTS Maps, Marks, Sensors,    \* ids of maps, map_points and detectors
          Spots,                   \* places on a map, in ratios of its image
          Labels,
          Databases,               \* databases to begin with, or to restore
          NoOne,
          MaxRestores              \* bound: backups restored

Row == [map : Maps, det : Sensors, place : Spots, label : Labels]
\* The ids the table of maps has given, the unique index of map_points, and the maps
\* its rows lie on.
SoundTables(d) ==
    /\ d.given \in SUBSET Maps /\ d.maps \in SUBSET d.given /\ d.sensors \in SUBSET Sensors
    /\ DOMAIN d.marks \in SUBSET Marks
    /\ \A q \in DOMAIN d.marks : d.marks[q] \in Row /\ d.marks[q].map \in d.maps
    /\ \A q, r \in DOMAIN d.marks : d.marks[q].det = d.marks[r].det => q = r

ASSUME MapPageAssumption ==
    /\ \A d \in Databases : SoundTables(d)
    /\ NoOne \notin Maps \union Marks /\ MaxRestores \in Nat

VARIABLES db,         \* the rows of maps, detectors and map_points that are not deleted
          restores,   \* backups restored
          editor,     \* the role of the session may configure
          ui,         \* the page, its view model and its canvas; history: rows have changed
                      \* otherwise than in place since they were read
          drag,       \* the point under the mouse, and whether it moved
          ringing,    \* the timer of the next refresh runs
          confirm,    \* the map whose deletion the dialog asks for
          saving      \* save_pending_positions, point by point

mapPageVars == <<db, restores, editor, ui, drag, ringing, confirm, saving>>

NoPoints == [q \in {} |-> NoOne]
NoRuntime == [map |-> NoOne, marks |-> NoPoints]
NoDrag == [point |-> NoOne, moved |-> FALSE]
\* What is left to save; history: what the page showed when it was asked to, and
\* whether the rows had changed.
NoSave == [busy |-> FALSE, saved |-> FALSE, left |-> NoPoints, shown |-> NoPoints, moved |-> {}, stale |-> FALSE]

\* The GUI thread waits for the mouse.
AtHand == confirm = NoOne /\ ~ saving.busy /\ drag = NoDrag
-----------------------------------------------------------------------------
(* The services.                                                           *)

\* get_map_runtime_view: the map and its points.
MapRuntime(m, d) == [map |-> m,
                     marks |-> [q \in {r \in DOMAIN d.marks : d.marks[r].map = m} |-> d.marks[q]]]

\* upsert_for_detector: the row of the detector, or else a new one.
Upserts(q, row) ==
    IF \E r \in DOMAIN db.marks : db.marks[r].det = row.det
    THEN q \in DOMAIN db.marks /\ db.marks[q].det = row.det
    ELSE q \in Marks \ DOMAIN db.marks
With(rows, q, row) == [r \in DOMAIN rows \union {q} |-> IF r = q THEN row ELSE rows[r]]

\* All columns are written, as they were displayed.
save_point(q, row) ==
    /\ row.map \in db.maps /\ row.det \in db.sensors /\ Upserts(q, row)
    /\ db' = [db EXCEPT !.marks = With(@, q, row)]

\* count_for_map is 0.
delete_map(m) ==
    /\ m \in db.maps /\ \A q \in DOMAIN db.marks : db.marks[q].map # m
    /\ db' = [db EXCEPT !.maps = @ \ {m}]
-----------------------------------------------------------------------------
(* The canvas and the view model, as what they make of the page.           *)

clear_runtime(u) ==
    [u EXCEPT !.canvas = NoRuntime, !.items = NoPoints, !.pending = NoPoints, !.dirty = FALSE]

Placed(rt) == [q \in DOMAIN rt.marks |-> rt.marks[q].place]
set_runtime(u, rt) ==
    [u EXCEPT !.canvas = rt, !.items = Placed(rt), !.pending = NoPoints, !.dirty = FALSE]

_render_runtime(u, rt) ==
    IF rt = NoRuntime THEN [clear_runtime(u) EXCEPT !.runtime = NoRuntime]
    ELSE [set_runtime(u, rt) EXCEPT !.runtime = rt]

\* The points are read again, or the map is gone.
Refreshed(u, d) ==
    IF u.selected \in d.maps
    THEN _render_runtime([u EXCEPT !.rows = u.listed, !.stale = FALSE], MapRuntime(u.selected, d))
    ELSE _render_runtime(u, NoRuntime)

\* Or the database fails.
refresh_current(u, d) == {Refreshed(u, d)} \union (IF u.selected = NoOne THEN {} ELSE {u})

select_map(u, m, d) == refresh_current([u EXCEPT !.selected = m, !.rows = u.listed], d)

\* The map that was selected, or the first of the list.
Selectable(u, d) == IF u.selected \in d.maps THEN {u.selected} ELSE d.maps

_load_maps(u, d) == [clear_runtime(u) EXCEPT !.listed = d.maps, !.rows = d.maps]

\* The canvas is cleared; the list fails, is empty, or a map of it is selected.
load(u, d) ==
    {[_render_runtime(u, NoRuntime) EXCEPT !.rows = {}]}
    \union IF d.maps = {}
           THEN {[_render_runtime(_load_maps(u, d), NoRuntime) EXCEPT !.selected = NoOne]}
           ELSE UNION {select_map(_load_maps(u, d), m, d) : m \in Selectable(u, d)}
-----------------------------------------------------------------------------
(* The handlers.                                                           *)

retry == AtHand /\ ui' \in load(ui, db) /\ UNCHANGED <<db, restores, editor, drag, ringing, confirm, saving>>

\* Another row of the list is clicked.
_on_map_selection_changed ==
    /\ AtHand
    /\ \E m \in ui.rows \ {ui.selected} : ui' \in select_map(ui, m, db)
    /\ UNCHANGED <<db, restores, editor, drag, ringing, confirm, saving>>

\* New readings or alarms: a refresh is due, unless one is or no map is selected.
_on_state_event ==
    /\ ~ ringing /\ ~ saving.busy /\ ui.selected # NoOne /\ ringing' = TRUE
    /\ UNCHANGED <<db, restores, editor, ui, drag, confirm, saving>>

\* The refresh; a point that is gone ends its drag.
Timeout ==
    /\ ringing /\ ~ saving.busy /\ ringing' = FALSE
    /\ ui' \in refresh_current(ui, db)
    /\ drag' = IF drag.point \in DOMAIN ui'.items THEN drag ELSE NoDrag
    /\ UNCHANGED <<db, restores, editor, confirm, saving>>

mousePressEvent ==
    /\ AtHand
    /\ \E q \in DOMAIN ui.items : drag' = [point |-> q, moved |-> FALSE]
    /\ UNCHANGED <<db, restores, editor, ui, ringing, confirm, saving>>

\* The place is kept, and the point is drawn there.
_handle_drag_move(u, q, spot) ==
    [u EXCEPT !.pending = With(@, q, spot), !.items[q] = spot, !.dirty = TRUE]

mouseMoveEvent ==
    /\ drag # NoDrag /\ editor
    /\ \E spot \in Spots : ui' = _handle_drag_move(ui, drag.point, spot)
    /\ drag' = [drag EXCEPT !.moved = TRUE]
    /\ UNCHANGED <<db, restores, editor, ringing, confirm, saving>>

\* A drag ends where the point is drawn by now: after a refresh, where it was before.
mouseReleaseEvent ==
    /\ drag # NoDrag /\ drag' = NoDrag
    /\ ui' = IF drag.moved THEN _handle_drag_move(ui, drag.point, ui.items[drag.point])
             ELSE ui
    /\ UNCHANGED <<db, restores, editor, ringing, confirm, saving>>

\* Mutant: the points go back, and what was dragged is kept.
BugCancel(u) == [u EXCEPT !.items = Placed(u.canvas), !.dirty = FALSE]

cancel_pending(u) == [u EXCEPT !.pending = NoPoints, !.items = Placed(u.canvas), !.dirty = FALSE]

cancel_pending_positions ==
    /\ AtHand /\ editor /\ ui.dirty /\ ui' = cancel_pending(ui)
    /\ UNCHANGED <<db, restores, editor, drag, ringing, confirm, saving>>

\* A copy of what is pending is saved, to the points as they were loaded.
save_pending_positions ==
    /\ AtHand /\ editor /\ ui.dirty
    /\ saving' = [busy |-> TRUE, saved |-> FALSE, stale |-> ui.stale,
                  left |-> [q \in DOMAIN ui.pending \intersect DOMAIN ui.runtime.marks |->
                               [ui.runtime.marks[q] EXCEPT !.place = ui.pending[q]]],
                  shown |-> [q \in DOMAIN ui.items |-> [ui.canvas.marks[q] EXCEPT !.place = ui.items[q]]],
                  moved |-> {q \in DOMAIN ui.items : ui.items[q] # ui.canvas.marks[q].place}]
    /\ UNCHANGED <<db, restores, editor, ui, drag, ringing, confirm>>

\* One point is saved and the map is read again, which may raise.
save_point_position ==
    /\ saving.busy
    /\ \E q \in DOMAIN saving.left, r \in Marks :
          /\ save_point(r, saving.left[q])
          /\ \/ /\ ui' = Refreshed(ui, db')
                /\ saving' = IF DOMAIN saving.left = {q} THEN [NoSave EXCEPT !.saved = TRUE]
                             ELSE [saving EXCEPT !.left = [s \in DOMAIN @ \ {q} |-> @[s]]]
             \/ ui' = [ui EXCEPT !.stale = saving.stale] /\ saving' = NoSave
    /\ UNCHANGED <<restores, editor, drag, ringing, confirm>>

\* The first that is refused or fails ends it.
SaveFails == /\ saving.busy /\ saving' = NoSave
             /\ UNCHANGED <<db, restores, editor, ui, drag, ringing, confirm>>

delete_selected_map ==
    /\ AtHand /\ editor /\ ui.selected \in ui.rows \intersect ui.listed
    /\ confirm' = ui.selected
    /\ UNCHANGED <<db, restores, editor, ui, drag, ringing, saving>>

\* Confirmed, and deleted.
Deleted ==
    /\ confirm # NoOne /\ confirm' = NoOne /\ delete_map(confirm)
    /\ ui' \in load([ui EXCEPT !.selected = IF @ = confirm THEN NoOne ELSE @], db')
    /\ UNCHANGED <<restores, editor, drag, ringing, saving>>

\* Not confirmed, or refused.
NotDeleted == /\ confirm # NoOne /\ confirm' = NoOne
              /\ UNCHANGED <<db, restores, editor, ui, drag, ringing, saving>>

\* A map that was stored is selected.
upload_map ==
    /\ AtHand /\ editor
    /\ \E m \in Maps \ db.given :
          /\ db' = [db EXCEPT !.maps = @ \union {m}, !.given = @ \union {m}]
          /\ ui' \in load([ui EXCEPT !.selected = m], db')
    /\ UNCHANGED <<restores, editor, drag, ringing, confirm, saving>>
-----------------------------------------------------------------------------
(* Other pages, to which the user went.  This one is kept, and not told.   *)

DetectorDeleted ==
    /\ AtHand /\ \E d \in db.sensors : db' = [db EXCEPT !.sensors = @ \ {d}]
    /\ UNCHANGED <<restores, editor, ui, drag, ringing, confirm, saving>>

TablesRestored ==
    /\ AtHand /\ restores < MaxRestores
    /\ db' \in Databases /\ restores' = restores + 1 /\ ui' = [ui EXCEPT !.stale = TRUE]
    /\ UNCHANGED <<editor, drag, ringing, confirm, saving>>
-----------------------------------------------------------------------------
\* The shell opens the page without loading it.
NewPage == [listed |-> {}, selected |-> NoOne, rows |-> {}, runtime |-> NoRuntime, dirty |-> FALSE,
            canvas |-> NoRuntime, items |-> NoPoints, pending |-> NoPoints,
            stale |-> FALSE]

MapPageInit == /\ db \in Databases /\ restores = 0 /\ editor \in BOOLEAN
               /\ ui = NewPage /\ drag = NoDrag /\ ringing = FALSE
               /\ confirm = NoOne /\ saving = NoSave

MapPageNext ==
    \/ retry \/ _on_map_selection_changed \/ _on_state_event \/ Timeout
    \/ mousePressEvent \/ mouseMoveEvent \/ mouseReleaseEvent \/ cancel_pending_positions
    \/ save_pending_positions \/ save_point_position \/ SaveFails
    \/ delete_selected_map \/ Deleted \/ NotDeleted \/ upload_map
    \/ DetectorDeleted \/ TablesRestored

MapPageSpec == MapPageInit /\ [][MapPageNext]_mapPageVars
-----------------------------------------------------------------------------
\* The tables keep the one point a detector may have, and the maps points lie on.  A
\* point is drawn where it was loaded unless it was dragged and its new place is still
\* to be saved, which the buttons then offer.
UnsavedIsTold ==
    /\ SoundTables(db)
    /\ ui.dirty <=> DOMAIN ui.pending # {}
    /\ DOMAIN ui.items = DOMAIN ui.canvas.marks /\ DOMAIN ui.pending \subseteq DOMAIN ui.items
    /\ \A q \in DOMAIN ui.items :
          ui.items[q] = IF q \in DOMAIN ui.pending THEN ui.pending[q] ELSE ui.canvas.marks[q].place

\* What a save writes is a point as it was drawn when the save was asked for, on the
\* map shown, and nothing else; of a map that was loaded after the last restore it
\* changes only the places.  A save that succeeds has written every point that was
\* drawn elsewhere than it was loaded: whatever was refreshed between the moves, the
\* release and the save, and between one point saved and the next.
SavedAsDropped ==
    [][/\ db'.marks # db.marks =>
             \/ TablesRestored
             \/ \E q \in DOMAIN saving.shown, r \in DOMAIN db'.marks :
                   /\ saving.busy /\ db'.marks = With(db.marks, r, saving.shown[q])
                   /\ ~ saving.stale =>
                         /\ r = q /\ q \in DOMAIN db.marks
                         /\ db'.marks[r] = [db.marks[r] EXCEPT !.place = saving.shown[q].place]
       /\ saving.busy /\ saving'.saved =>
             \A q \in saving.moved : \E r \in DOMAIN db'.marks : db'.marks[r] = saving.shown[q]]_mapPageVars

\* A map that is deleted is the one that was confirmed, no point lies on it, and the
\* page shows it no longer, though it may fail to load the others.
MapDeletedAsConfirmed ==
    [][\A m \in db.maps \ db'.maps :
          \/ TablesRestored
          \/ /\ confirm = m /\ m \in ui.listed /\ \A q \in DOMAIN db'.marks : db'.marks[q].map # m
             /\ m \notin {ui'.selected, ui'.canvas.map} /\ m \notin ui'.rows]_mapPageVars
=============================================================================

-------------------------------- MODULE Records --------------------------------
(***************************************************************************)
(* One pane of the records page (ui/records), the service and repository   *)
(* it asks (services/record_service.py, db/repositories/                   *)
(* record_repository.py) and the curve service that reads the same rows    *)
(* (services/chart_service.py), while workers go on writing them.          *)
(*                                                                         *)
(* The pane runs in the GUI thread and every service call is a transaction *)
(* of its own: only a deletion and the query that follows it are two.      *)
(***************************************************************************)
EXTENDS Integers, FiniteSets, Sequences, SequencesExt, FiniteSetsExt, Functions

CONSTANTS Kinds,         \* of the panes checked: "alarm", "running", "operation"
          Stamps,        \* the times of the rows there are at first, by id
          Start, MaxClock, \* bound: the clock
          MaxId,         \* bound: ids given
          Places,        \* what 位置编号 and, of alarms, 控制器 find a detector by
          Anywhere,      \* neither is filled in
          Homes,         \* where the detectors are at first
          Forms,         \* bound: the filters the editors are set to
          Sizes,         \* bound: rows per page
          Hour, Week, MaxSpan,   \* the default windows, MAX_QUERY_SPAN_DAYS
          Batch, Limit,          \* 100 and MAX_EXPORT_ROWS
          HistoryMax, CurveSize  \* HISTORY_MAX_POINTS, per_page of a curve

ASSUME RecordsAssumption ==
    /\ Stamps \in Seq(Nat) /\ {Start, MaxClock, MaxId, Hour, Week, MaxSpan} \subseteq Nat
    /\ Start <= MaxClock /\ Sizes \subseteq Nat \ {0}
    /\ Homes \in [1..2 -> Places] /\ Anywhere \notin Places
    /\ Forms \subseteq [from : Int, to : Int, status : {"any", "active", "recovered"},
                      place : Places \union {Anywhere}, det : 0..2]
    /\ \E largest \in Sizes : \A size \in Sizes : size <= largest
    /\ {Batch, Limit, HistoryMax, CurveSize} \subseteq Nat \ {0}
    \* The only limit asked for is MAX_EXPORT_ROWS.
    /\ \E whole \in 1..Limit : Limit = whole * Batch

VARIABLES kind,      \* record_type of the pane
          clock,       \* the clock
          table,     \* the rows, by id
          lastId,    \* AUTOINCREMENT
          place,     \* position_code and controller_id of the detectors, as they are now
          form,      \* RecordFilterWidget: window, other filters and rows per page
          asked,     \* RecordQueryViewModel.current_filters
          bar,       \* RecordActionBar: _record_id and _filters
          view,      \* the table: rows, page, total, rows per page, state; history: of what query
          selected,  \* _selected_record_id
          gui,       \* "changed" between a deletion and its query
          walk       \* history: the pages turned through since the first

recVars == <<kind, clock, table, lastId, place, form, asked, bar, view, selected, gui, walk>>

None == 0
NoFilters == [from |-> None, to |-> None, status |-> "default", place |-> Anywhere, det |-> None]
NoWalk == [filters |-> NoFilters, size |-> 0, page |-> 0, read |-> <<>>, came |-> {}, gone |-> FALSE]
Curves == {1, 2}   \* detectors of a curve
-----------------------------------------------------------------------------
(* The repository.                                                         *)

\* _bounded_time_range: without both ends, the last week.
Window(f) == IF f = NoFilters THEN <<clock - Week, clock>> ELSE <<f.from, f.to>>
Refused(w) == w[1] > w[2] \/ w[2] - w[1] > MaxSpan

\* _record_filters: columns of the row, and columns of its detector joined to it.
Within(row, w) == w[1] <= row.at /\ row.at <= w[2]
StatusFits(row, f) == (f.status = "active" => row.active) /\ (f.status = "recovered" => ~ row.active)
DetectorFits(row, f) == f.place \in {Anywhere, place[row.det]} /\ f.det \in {None, row.det}
Matches(row, f) == Within(row, Window(f)) /\ StatusFits(row, f) /\ DetectorFits(row, f)
Matching(f) == {id \in DOMAIN table : Matches(table[id], f)}

\* The members of S in the order R: the nth is the one that n - 1 precede.
Ordered(S, R) ==
    [n \in 1..Cardinality(S) |-> CHOOSE i \in S : Cardinality({j \in S : <<j, i>> \in R}) = n - 1]

\* _order_clause: by time, then by id DESC whatever the direction.
Descending(ids) ==
    Ordered(ids, {r \in ids \X ids : \/ table[r[1]].at > table[r[2]].at
                                     \/ table[r[1]].at = table[r[2]].at /\ r[1] > r[2]})
Ascending(ids) ==
    Ordered(ids, {r \in ids \X ids : \/ table[r[1]].at < table[r[2]].at
                                     \/ table[r[1]].at = table[r[2]].at /\ r[1] > r[2]})

\* LIMIT ? OFFSET ?  Mutant: the first page is page 0.
BugPageOf(rows, page, size) == SubSeq(rows, page * size + 1, Min({(page + 1) * size, Len(rows)}))
PageOf(rows, page, size) == SubSeq(rows, (page - 1) * size + 1, Min({page * size, Len(rows)}))

list_records(f, page, size) == PageOf(Descending(Matching(f)), page, size)

\* A loop that reads pages: the rows so far, and whether it goes on.
Loop(rows, more) == [rows |-> rows, more |-> more]

\* export_records: batch after batch, until one is short; one transaction, so the
\* batches are pages of the same rows.  A turn after the end of the loop reads nothing,
\* and a turn before it reads a row at least, so Limit turns are enough.
ExportTurn(matching, loop, page) ==
    LET wanted == Min({Batch, Limit - Len(loop.rows)})
        batch == PageOf(matching, page, wanted)
    IN  IF ~ loop.more \/ Len(loop.rows) >= Limit THEN loop
        ELSE Loop(loop.rows \o batch, Len(batch) >= wanted)

Exported(matching) ==
    LET After[page \in Nat] ==
            IF page = 0 THEN Loop(<<>>, TRUE) ELSE ExportTurn(matching, After[page - 1], page)
    IN  After

export_records(f) == Exported(Descending(Matching(f)))[Limit].rows

\* query_history: every page of every detector, unless there are too many rows.
OfDetector(w, d) == {id \in DOMAIN table : table[id].det = d /\ Within(table[id], w)}

\* The pages of one detector, after the rows of those before it; total rows in all.
CurveTurn(ofDetector, total, loop, page) ==
    LET batch == PageOf(ofDetector, page, Batch)
    IN  IF ~ loop.more \/ (page > 1 /\ Len(loop.rows) >= total) THEN loop
        ELSE Loop(loop.rows \o batch, page = 1 \/ batch # <<>>)

CurvePages(ofDetector, sofar, total) ==
    LET After[page \in Nat] ==
            IF page = 0 THEN Loop(sofar, TRUE) ELSE CurveTurn(ofDetector, total, After[page - 1], page)
    IN  After

\* One detector more: its rows are counted first.
CurveOf(w, sofar, d) ==
    LET total == sofar.total + Cardinality(OfDetector(w, d))
    IN  IF sofar.refused \/ total > HistoryMax THEN [refused |-> TRUE, total |-> sofar.total, rows |-> <<>>]
        ELSE [refused |-> FALSE, total |-> total,
              rows |-> CurvePages(Ascending(OfDetector(w, d)), sofar.rows, total)[total + 1].rows]

CurveRows(w, ds) ==
    LET Curve[k \in 0..Len(ds)] ==
            IF k = 0 THEN [refused |-> FALSE, total |-> 0, rows |-> <<>>]
            ELSE CurveOf(w, Curve[k - 1], ds[k])
    IN  Curve[Len(ds)]

query_history(w, ds) ==
    LET all == CurveRows(w, ds)
        rows == all.rows
        At(p) == table[rows[p]].at
        order == {r \in (DOMAIN rows) \X (DOMAIN rows) :
                     \/ At(r[1]) < At(r[2])
                     \/ At(r[1]) = At(r[2]) /\ rows[r[1]] < rows[r[2]]
                     \/ rows[r[1]] = rows[r[2]] /\ r[1] < r[2]}
        places == Ordered(DOMAIN rows, order)
    IN  [refused |-> all.refused,
         points |-> PageOf([n \in DOMAIN places |-> rows[places[n]]], 1, CurveSize)]
-----------------------------------------------------------------------------
(* The pane.                                                               *)

\* RecordFilterWidget.collect: nothing from an inverted window.
Collected == [from |-> form.from, to |-> form.to, status |-> form.status, place |-> form.place, det |-> form.det]
Inverted == form.to < form.from

\* set_context(...).  Mutant: the bar is told before the filters are known.
BugSyncActions(id, filters) == bar' = [id |-> id, filters |-> asked]
_sync_actions(id, filters) == bar' = [id |-> id, filters |-> filters]

\* DataTable._total_pages.
TotalPages == (view.total + view.size - 1) \div view.size

\* History: pages read one after the other, of the same filters.
Walked(f, size, page, rows) ==
    IF page = 1 THEN [filters |-> f, size |-> size, page |-> 1, read |-> rows, came |-> {}, gone |-> FALSE]
    ELSE IF walk.filters = f /\ walk.size = size /\ page = walk.page + 1
    THEN [walk EXCEPT !.page = page, !.read = @ \o rows]
    ELSE NoWalk

\* _apply_page: the table shows the answer and nothing is selected.
_apply_page(f, page, rows) ==
    /\ view' = [rows |-> rows, page |-> page, total |-> Cardinality(Matching(f)),
                size |-> form.size, state |-> IF rows = <<>> THEN "empty" ELSE "ready", of |-> f]
    /\ selected' = None /\ _sync_actions(None, f)
    /\ walk' = Walked(f, form.size, page, rows)

\* _show_error: the table is emptied.
_show_error(f, page) ==
    /\ view' = [rows |-> <<>>, page |-> page, total |-> 0, size |-> form.size, state |-> "error",
                of |-> f]
    /\ selected' = None /\ _sync_actions(None, f) /\ walk' = NoWalk

\* query_records of what the editors hold: refused at once, refused or failed in the
\* service, or answered.
query_records(page) ==
    \/ /\ Inverted
       /\ view' = [view EXCEPT !.state = "error"] /\ UNCHANGED <<asked, bar, selected, walk>>
    \/ /\ ~ Inverted /\ asked' = Collected
       /\ \/ _show_error(Collected, page)
          \/ ~ Refused(Window(Collected)) /\ _apply_page(Collected, page, list_records(Collected, page, form.size))

\* reset: the last hour, and nothing else.
NewForm == [from |-> clock - Hour, to |-> clock, status |-> "any", place |-> Anywhere, det |-> None,
            size |-> Max(Sizes)]

Idle == gui = "idle"
Data == <<kind, clock, table, lastId, place>>

Search == Idle /\ query_records(1) /\ UNCHANGED <<Data, form, gui>>

\* The button of the error page repeats the page of the view model.
Retry == Idle /\ view.state = "error" /\ query_records(view.page) /\ UNCHANGED <<Data, form, gui>>

\* The two buttons, as _emit_page lets them through: back from an empty list, but not
\* to a page that is still beyond the last.  _change_page reads the editors again.
TurnPage ==
    /\ Idle
    /\ \E page \in {view.page - 1, view.page + 1} :
          /\ page >= 1 /\ (page > view.page \/ TotalPages > 0 => page <= TotalPages)
          /\ query_records(page)
    /\ UNCHANGED <<Data, form, gui>>

EditForm ==
    /\ Idle
    /\ \/ \E f \in Forms :
             /\ f.status # "any" => kind = "alarm"
             /\ f.place # Anywhere \/ f.det # None => kind # "operation"
             /\ form' = [form EXCEPT !.from = f.from, !.to = f.to, !.status = f.status,
                                    !.place = f.place, !.det = f.det]
       \/ \E n \in Sizes : form' = [form EXCEPT !.size = n]
    /\ UNCHANGED <<Data, asked, bar, view, selected, gui, walk>>

\* reset, and the query that follows it.
reset_filters ==
    /\ Idle
    /\ form' = NewForm
    /\ gui' = "changed"
    /\ UNCHANGED <<Data, asked, bar, view, selected, walk>>

_row_selected ==
    /\ Idle /\ view.state = "ready"
    /\ \E id \in Range(view.rows) : selected' = id /\ _sync_actions(id, asked)
    /\ UNCHANGED <<Data, form, asked, view, gui, walk>>

\* History: the rows that have come to match the filters of the walk, and whether any
\* has gone.  A walk that has seen both is forgotten.
Observed ==
    IF walk.page = 0 THEN UNCHANGED walk
    ELSE \E f \in {walk.filters} :
            LET came == walk.came \union (Matching(f)' \ Matching(f))
                gone == walk.gone \/ ~ Matching(f) \subseteq Matching(f)'
            IN  walk' = IF gone /\ came # {} THEN NoWalk
                        ELSE [walk EXCEPT !.came = came, !.gone = gone]

\* The deletion is logged in operation_logs.
Without(ids) ==
    LET log == [at |-> clock, active |-> FALSE, linked |-> FALSE, det |-> 1]
    IN  /\ IF kind = "operation" /\ lastId < MaxId
           THEN /\ lastId' = lastId + 1
                /\ table' = [id \in (DOMAIN table \ ids) \union {lastId'} |->
                                IF id = lastId' THEN log ELSE table[id]]
           ELSE table' = Restrict(table, DOMAIN table \ ids) /\ UNCHANGED lastId
        /\ UNCHANGED place /\ Observed

\* The row must exist, and no linkage record may refer to it.
delete_selected ==
    /\ Idle /\ bar.id # None /\ bar.id \in DOMAIN table /\ ~ table[bar.id].linked
    /\ Without({bar.id}) /\ gui' = "changed"
    /\ UNCHANGED <<kind, clock, form, asked, bar, view, selected>>

\* One referred to by a linkage record undoes it all.
clear_current ==
    /\ Idle /\ ~ Refused(Window(bar.filters))
    /\ \A id \in Matching(bar.filters) : ~ table[id].linked
    /\ Without(Matching(bar.filters)) /\ gui' = "changed"
    /\ UNCHANGED <<kind, clock, form, asked, bar, view, selected>>

\* _record_changed.
_record_changed ==
    /\ gui = "changed" /\ gui' = "idle" /\ query_records(1)
    /\ UNCHANGED <<Data, form>>
-----------------------------------------------------------------------------
(* The workers.                                                            *)

\* A row stamped when the port was read, and written a little later; automatic
\* linkage has recorded in the same transaction what it did about an alarm.
NewRow ==
    /\ lastId < MaxId /\ lastId' = lastId + 1
    /\ \E row \in [at : {clock - 1, clock}, active : {kind = "alarm"},
                   linked : IF kind = "alarm" THEN BOOLEAN ELSE {FALSE},
                   det : IF kind = "running" THEN Curves ELSE {1}] :
          table' = [id \in DOMAIN table \union {lastId'} |-> IF id = lastId' THEN row ELSE table[id]]
    /\ UNCHANGED <<kind, clock, place, form, asked, bar, view, selected, gui>> /\ Observed

\* The alarm recovers: its row leaves the active ones and joins the recovered ones.
Recover(id) ==
    /\ table[id].active /\ table' = [table EXCEPT ![id].active = FALSE]
    /\ UNCHANGED <<kind, clock, lastId, place, form, asked, bar, view, selected, gui>> /\ Observed

\* The detector's code or controller is edited on its page: its old rows are found by
\* what it is called now.  Bound: one that has rows.
DetectorEdited(d) ==
    /\ \E id \in DOMAIN table : table[id].det = d
    /\ \E p \in Places \ {place[d]} : place' = [place EXCEPT ![d] = p]
    /\ UNCHANGED <<kind, clock, table, lastId, form, asked, bar, view, selected, gui>> /\ Observed

Tick ==
    /\ clock < MaxClock /\ clock' = clock + 1
    /\ UNCHANGED <<kind, table, lastId, place, form, asked, bar, view, selected, gui, walk>>
-----------------------------------------------------------------------------
RecordsInit ==
    /\ kind \in Kinds /\ clock = Start /\ lastId = Len(Stamps)
    /\ table = [id \in DOMAIN Stamps |->
                   [at |-> Stamps[id], active |-> FALSE, linked |-> FALSE,
                    det |-> IF kind = "running" THEN 1 + (id % 2) ELSE 1]]
    /\ place = Homes /\ form = NewForm
    /\ asked = NoFilters /\ bar = [id |-> None, filters |-> NoFilters]
    /\ view = [rows |-> <<>>, page |-> 1, total |-> 0, size |-> Max(Sizes),
               state |-> "ready", of |-> NoFilters]
    /\ selected = None /\ gui = "idle" /\ walk = NoWalk

Pane == \/ Search \/ Retry \/ TurnPage \/ EditForm \/ reset_filters \/ _row_selected
        \/ delete_selected \/ clear_current \/ _record_changed
Workers == NewRow \/ Tick \/ (\E id \in DOMAIN table : Recover(id)) \/ \E d \in Curves : DetectorEdited(d)

RecordsNext == Pane \/ Workers

RecordsSpec == RecordsInit /\ [][RecordsNext]_recVars
-----------------------------------------------------------------------------
RecordsTypeOK ==
    /\ kind \in Kinds /\ clock \in Start..MaxClock /\ lastId \in Nat
    /\ DOMAIN table \subseteq 1..lastId
    /\ \A id \in DOMAIN table : table[id] \in [at : Int, active : BOOLEAN, linked : BOOLEAN, det : Curves]
    /\ place \in [Curves -> Places] /\ selected \in 0..lastId /\ ToSet(view.rows) \subseteq 1..lastId
    /\ view.state \in {"ready", "empty", "error"}

\* Each page is a query of its own, and OFFSET counts the rows that match at that moment.
\* As long as the same rows match, the pages turned so far hold the newest of them, each
\* once and in order.  Rows that come in between (an alarm written, recovered, or of a
\* detector that was given the code asked for) may make a row be read twice but none be
\* missed; rows that go may make one be missed but none be read twice.
WalkWhole ==
    walk.page > 0 =>
        LET newest == PageOf(Descending(Matching(walk.filters)), 1, walk.page * walk.size)
        IN  /\ walk.came = {} /\ ~ walk.gone => walk.read = newest
            /\ ~ walk.gone => ToSet(newest) \ walk.came \subseteq ToSet(walk.read)
            /\ walk.came = {} => IsInjective(walk.read)

\* An export, whatever the editors hold by now, is of the query the table answers or
\* failed to answer: the newest rows that match it, up to the limit, each once.
ExportWhole ==
    ~ Refused(Window(bar.filters)) =>
        export_records(bar.filters) = PageOf(Descending(Matching(view.of)), 1, Limit)

\* A curve begins with the oldest points of all its detectors, or is refused because
\* there are too many of them.
CurveWhole ==
    kind = "running" => \A w \in {<<f.from, f.to>> : f \in Forms} : ~ Refused(w) =>
        LET ids == UNION {OfDetector(w, d) : d \in Curves}
            curve == query_history(w, <<2, 1>>)
            read == ToSet(curve.points)
        IN  /\ curve.refused <=> Cardinality(ids) > HistoryMax
            /\ ~ curve.refused =>
                  /\ IsInjective(curve.points) /\ Cardinality(read) = Min({CurveSize, Cardinality(ids)})
                  /\ \A i \in read, j \in ids \ read : table[i].at <= table[j].at

RowsReadOnce == RecordsTypeOK /\ WalkWhole /\ ExportWhole /\ CurveWhole

\* What is deleted is the row selected in the table, or every row and only rows that
\* match the filters of the query whose answer or failure is shown, and those of the
\* last week when nothing was asked yet; however the editors were changed since, and
\* whatever was written in between.  A table that an inverted window has hidden behind
\* its error page counts as shown: the bar still acts on its row and its filters.
ActsOnWhatIsShown ==
    [][LET gone == DOMAIN table \ DOMAIN table'
       IN  gone = {} \/ gone = Matching(view.of) \/ (gone = {selected} /\ selected \in ToSet(view.rows))]_recVars
=============================================================================

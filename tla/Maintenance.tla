---------------------------- MODULE Maintenance ----------------------------
(***************************************************************************)
(* Maintenance plans and the reminders computed from them and from the     *)
(* detectors: MaintenanceService, the page that shows both lists, its      *)
(* dialog, and as much of the detector configuration as reminders read.    *)
(* Time passes in half days, so that an instant may lie between two dates; *)
(* a date stands for its midnight, UTC.  The scheduler's reminder job is   *)
(* left out: nothing registers it.                                         *)
(***************************************************************************)
EXTENDS Integers, FiniteSets

CONSTANTS DetectorIds, Plans,      \* ids
          Dates,                 \* days that plans and sensors fall due
          Cycles,                \* calibration cycles, in days
          Reminds,               \* days a plan reminds before it is due
          SensorLifeRemindDays, CalibrationRemindDays, DefaultRemindDays,
          Absent,                \* no row, no value, no dialog
          Unreadable,            \* a text with dashes in the right places
          MaxNow, MaxSaves, MaxChanges  \* bounds: the clock, saves, changes of a form

VARIABLES
    now,        \* the clock, in half days
    detectors,  \* Absent, or state, created, life, cycle
    plans,      \* Absent, or detector, due, remind, status
    page,       \* reminder cards, plan rows, selection, and the two errors
    dialog,     \* Absent, or the plan it edits, its form, the fields changed
    fresh,      \* history: nothing has changed since the page was loaded
    saves       \* saves so far

vars == <<now, detectors, plans, page, dialog, fresh, saves>>

PLAN_STATUSES == {"active", "completed", "cancelled"}
Plan == [detector : DetectorIds, due : Dates, remind : Reminds, status : PLAN_STATUSES]
Fields == {"detector", "due", "remind", "status"}

ASSUME MaintenanceAssumption ==
    /\ Dates \subseteq Nat /\ Cycles \subseteq Nat \ {0} /\ Reminds \subseteq Nat
    /\ {SensorLifeRemindDays, CalibrationRemindDays} \subseteq Nat
    /\ DefaultRemindDays \in Reminds \ {0}
    /\ {MaxNow, MaxSaves, MaxChanges} \subseteq Nat
    /\ Absent \notin Plan

Present(d) == detectors[d] # Absent /\ ~detectors[d].deleted

(***************************************************************************)
(* list_due_reminders.                                                     *)
(***************************************************************************)
Ceil(half_days) == (half_days + 1) \div 2

DaysUntil(left) == IF left >= 0 THEN Ceil(left) ELSE -Ceil(-left)

\* Mutant: nothing is shown once the instant has passed.
BugBuildReminder(source, d, plan, due, remind) ==
    IF now < due - 2 * remind \/ now > due THEN {}
    ELSE {[source |-> source, detector |-> d, plan |-> plan,
           status |-> "due_soon", days |-> DaysUntil(due - now)]}

\* due is an instant, remind a number of days.
_build_reminder(source, d, plan, due, remind) ==
    IF now < due - 2 * remind THEN {}
    ELSE {[source |-> source, detector |-> d, plan |-> plan,
           status |-> IF due < now THEN "overdue" ELSE "due_soon",
           days |-> DaysUntil(due - now)]}

\* The first calibration, the only one, is due a cycle after the detector was
\* created, to the hour.
_detector_reminders(d) ==
    LET row == detectors[d]
    IN (IF row.life = Absent THEN {}
        ELSE _build_reminder("detector.sensor_life", d, Absent,
                             2 * row.life, SensorLifeRemindDays))
       \union
       (IF row.cycle = Absent THEN {}
        ELSE _build_reminder("detector.calibration", d, Absent,
                             row.created + 2 * row.cycle, CalibrationRemindDays))

_plan_reminder(p) ==
    IF plans[p].status # "active" \/ ~Present(plans[p].detector) THEN {}
    ELSE _build_reminder("maintenance_plan", plans[p].detector, p,
                         2 * plans[p].due, plans[p].remind)

\* One date that cannot be parsed raises ValueError for the whole list.
Readable == \A d \in DetectorIds : Present(d) => detectors[d].life # Unreadable

list_due_reminders ==
    UNION ({_detector_reminders(d) : d \in {x \in DetectorIds : Present(x)}}
           \union {_plan_reminder(p) : p \in {x \in Plans : plans[x] # Absent}})

(***************************************************************************)
(* The page.  Each of the two loads may fail on its own.                   *)
(***************************************************************************)
\* Mutant: a date that cannot be read hides all cards silently.
BugLoadReminders(read) ==
    [cards |-> IF read /\ Readable THEN list_due_reminders ELSE {},
     cards_error |-> ~read]

_load_reminders(read) ==
    [cards |-> IF read /\ Readable THEN list_due_reminders ELSE {},
     cards_error |-> ~read \/ ~Readable]

_load_plans(read) ==
    [rows |-> IF read THEN plans ELSE [p \in Plans |-> Absent],
     rows_error |-> ~read, selected |-> Absent]

\* Written for the state after: an edit that is saved reloads the page.
reload ==
    \E r1, r2 \in BOOLEAN :
        page' = [reminders |-> _load_reminders(r1)', plans |-> _load_plans(r2)',
                 loaded |-> TRUE]

Init ==
    /\ now = 0
    /\ detectors = [d \in DetectorIds |-> Absent]
    /\ plans = [p \in Plans |-> Absent]
    /\ page = [reminders |-> [cards |-> {}, cards_error |-> FALSE],
               plans |-> [rows |-> plans, rows_error |-> FALSE, selected |-> Absent],
               loaded |-> FALSE]
    /\ dialog = Absent
    /\ fresh = FALSE
    /\ saves = 0

refresh ==
    /\ dialog = Absent
    /\ UNCHANGED <<now, detectors, plans, dialog, saves>>
    /\ reload
    /\ fresh' = TRUE

_selection_changed(p) ==
    /\ dialog = Absent
    /\ page.plans.rows[p] # Absent
    /\ page' = [page EXCEPT !.plans.selected = p]
    /\ UNCHANGED <<now, detectors, plans, dialog, fresh, saves>>

(***************************************************************************)
(* The dialog: modal, filled in from the page's row.                       *)
(***************************************************************************)
open_create_dialog ==
    /\ dialog = Absent
    /\ now \div 2 \in Dates
    /\ \E d \in DetectorIds :
          dialog' = [plan |-> Absent, changed |-> {},
                     form |-> [detector |-> d, due |-> now \div 2,
                               remind |-> DefaultRemindDays, status |-> "active"]]
    /\ UNCHANGED <<now, detectors, plans, page, fresh, saves>>

\* Mutant: saving a plan reactivates it.
BugApplyPlan(row) == [row EXCEPT !.status = "active"]

\* `remind_days_before or 7`: a plan that reminds on the day itself opens with
\* the default.
_apply_plan(row) == [row EXCEPT !.remind = IF @ = 0 THEN DefaultRemindDays ELSE @]

open_edit_dialog ==
    /\ dialog = Absent
    /\ page.plans.selected # Absent
    /\ dialog' = [plan |-> page.plans.selected, changed |-> {},
                  form |-> _apply_plan(page.plans.rows[page.plans.selected])]
    /\ UNCHANGED <<now, detectors, plans, page, fresh, saves>>

change(field, form) ==
    /\ dialog # Absent
    /\ field \notin dialog.changed /\ Cardinality(dialog.changed) < MaxChanges
    /\ \A f \in Fields \ {field} : form[f] = dialog.form[f]
    /\ dialog' = [dialog EXCEPT !.form = form, !.changed = @ \union {field}]
    /\ UNCHANGED <<now, detectors, plans, page, fresh, saves>>

reject ==
    /\ dialog # Absent
    /\ dialog' = Absent
    /\ UNCHANGED <<now, detectors, plans, page, fresh, saves>>

\* create inserts a row, update writes all the fields of one.
create_or_update(p) == [plans EXCEPT ![p] = dialog.form]

\* create_plan or update_plan, one transaction; a plan that is refused, or a
\* database that fails, leaves the dialog as it is.
submit(p) ==
    /\ dialog # Absent
    /\ saves < MaxSaves
    /\ IF dialog.plan = Absent THEN plans[p] = Absent ELSE p = dialog.plan
    /\ Present(dialog.form.detector)
    /\ plans' = create_or_update(p)
    /\ dialog' = Absent
    /\ saves' = saves + 1
    /\ UNCHANGED <<now, detectors>>
    /\ reload
    /\ fresh' = TRUE

(***************************************************************************)
(* The detector configuration, and the clock.                              *)
(***************************************************************************)
save_detector(d, life, cycle) ==
    /\ dialog = Absent
    /\ saves < MaxSaves
    /\ detectors[d] # Absent => Present(d)
    /\ detectors' = [detectors EXCEPT ![d] =
         [created |-> IF @ = Absent THEN now ELSE @.created,
          life |-> life, cycle |-> cycle, deleted |-> FALSE]]
    /\ saves' = saves + 1
    /\ fresh' = FALSE
    /\ UNCHANGED <<now, plans, page, dialog>>

delete_detector(d) ==
    /\ dialog = Absent
    /\ saves < MaxSaves
    /\ Present(d)
    /\ detectors' = [detectors EXCEPT ![d].deleted = TRUE]
    /\ saves' = saves + 1
    /\ fresh' = FALSE
    /\ UNCHANGED <<now, plans, page, dialog>>

HalfADay ==
    /\ now < MaxNow
    /\ now' = now + 1
    /\ fresh' = FALSE
    /\ UNCHANGED <<detectors, plans, page, dialog, saves>>

Next ==
    \/ refresh
    \/ \E p \in Plans : _selection_changed(p)
    \/ open_create_dialog
    \/ open_edit_dialog
    \/ \E field \in Fields, form \in Plan : change(field, form)
    \/ reject
    \/ \E p \in Plans : submit(p)
    \/ \E d \in DetectorIds, life \in Dates \union {Absent, Unreadable},
          cycle \in Cycles \union {Absent} : save_detector(d, life, cycle)
    \/ \E d \in DetectorIds : delete_detector(d)
    \/ HalfADay

Spec == Init /\ [][Next]_vars

(***************************************************************************)
(* What is claimed.                                                        *)
(***************************************************************************)
ReminderCard == [source : {"detector.sensor_life", "detector.calibration", "maintenance_plan"},
         detector : DetectorIds, plan : Plans \union {Absent},
         status : {"due_soon", "overdue"}, days : Int]

\* The type of every variable.
TypeOK ==
    /\ now \in 0..MaxNow /\ saves \in 0..MaxSaves /\ fresh \in BOOLEAN
    /\ \A d \in DetectorIds : detectors[d] # Absent =>
          detectors[d] \in [created : Nat, life : Dates \union {Absent, Unreadable},
                            cycle : Cycles \union {Absent}, deleted : BOOLEAN]
    /\ plans \in [Plans -> Plan \union {Absent}]
    /\ page.reminders.cards \subseteq ReminderCard
    /\ page.plans.rows \in [Plans -> Plan \union {Absent}]
    /\ dialog # Absent => dialog.form \in Plan

\* Work that is overdue is on a page just loaded, and shown as overdue, unless
\* the page reports an error: an empty list means that nothing is due.
OverdueIsShown ==
    fresh /\ ~page.reminders.cards_error =>
        \A p \in Plans :
            plans[p] # Absent =>
              (plans[p].status = "active" /\ Present(plans[p].detector)
                 /\ now > 2 * plans[p].due
               => \E c \in page.reminders.cards : c.plan = p /\ c.status = "overdue")

\* A card's title and its text are computed apart, from the status and from
\* the days left: they never contradict each other, to the last half day.
CardsAgree ==
    \A c \in page.reminders.cards : c.status = "overdue" <=> c.days < 0

\* From one load to a later one a plan that nobody touched, of a detector that
\* is still there, does not leave the list, and its days left never grow.
UrgencyOnlyGrows ==
    [][page'.reminders # page.reminders
         /\ ~page.reminders.cards_error /\ ~page'.reminders.cards_error =>
       \A c \in page.reminders.cards :
         c.plan # Absent =>
          (plans'[c.plan] = page.plans.rows[c.plan] /\ Present(c.detector)'
           => \E e \in page'.reminders.cards : e.plan = c.plan /\ e.days <= c.days)]_vars

\* Saving an edit changes the fields the user has changed and no others, but
\* for a plan that reminds on the day itself: see _apply_plan.
EditKeepsTheRest ==
    [][\A p \in Plans :
         plans[p] # Absent /\ dialog # Absent /\ plans'[p] # plans[p] =>
           \A f \in Fields \ dialog.changed :
               plans'[p][f] = plans[p][f] \/ (f = "remind" /\ plans[p].remind = 0)]_vars

\* The cards are true: overdue work is among them, titled as its days left say.
CardsAreTrue == TypeOK /\ OverdueIsShown /\ CardsAgree
=============================================================================

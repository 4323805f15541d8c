---------------------------- MODULE AlarmIngest ----------------------------
(***************************************************************************)
(* Alarm ingestion and automatic linkage (services/alarm_service.py,       *)
(* services/linkage_service.py and their repositories).                    *)
(*                                                                         *)
(* Every write is one SQLite transaction opened with BEGIN IMMEDIATE, so   *)
(* at most one is open at a time: the open ingestion transaction is txn,   *)
(* working on a private copy of the tables, and the administrator's        *)
(* operations, each a short transaction of its own, wait for it.           *)
(***************************************************************************)
EXTENDS Naturals, Sequences, FiniteSets

CONSTANTS Detectors,      \* detector ids
          AlarmTypes,     \* statuses that open an alarm (ALARM_STATUS_TYPES)
          Normal,         \* the status that opens none
          Invalid,        \* the status that is ignored
          LevelOf,        \* LevelOf[t]: alarm_level of a reading of type t
          NoLevel,        \* alarm_level IS NULL
          AnyDetector,    \* detector_id IS NULL in a rule
          AnyType,        \* alarm_type = '*' in a rule
          RuleIds,        \* ids linkage_rules may hand out
          RuleShapes,     \* contents a rule may be saved with
          ObjectIds,      \* ids linkage_objects may hand out
          NoRow,          \* the id has not been handed out yet
          Deleted,        \* the row has its deleted_at set
          NoTxn,          \* no ingestion transaction is open
          MaxBatch,       \* bound: readings per batch
          MaxAlarms,      \* bound: alarm rows ever inserted
          MaxManual       \* bound: manual linkage records per object

Statuses == AlarmTypes \union {Normal, Invalid}
Reading  == [det : Detectors, status : Statuses]

ASSUME ConstantsAssumption ==
    /\ Normal \notin AlarmTypes /\ Invalid \notin AlarmTypes /\ Normal # Invalid
    /\ RuleShapes \subseteq [det : Detectors \union {AnyDetector},
                             type : AlarmTypes \union {AnyType},
                             level : {LevelOf[t] : t \in AlarmTypes} \union {NoLevel},
                             object : ObjectIds, enabled : BOOLEAN]
    /\ {NoRow, Deleted} \cap RuleShapes = {}
    /\ NoRow # Deleted
    /\ MaxBatch \in Nat /\ MaxAlarms \in Nat /\ MaxManual \in Nat

VARIABLES db,         \* committed alarm_records and linkage_records, and their history
          txn,        \* the open ingest_readings transaction, or NoTxn
          rules,      \* linkage_rules
          objects,    \* linkage_objects
          live,       \* detectors not soft-deleted
          manual      \* manual[o]: manual linkage records of object o

config == <<rules, objects, live, manual>>
vars   == <<db, txn, rules, objects, live, manual>>

-----------------------------------------------------------------------------
(* One row of alarm_records with the linkage_records that reference it:    *)
(* fired[r] counts the automatic records of rule r.  A "deleted" row is    *)
(* gone; its id is never used again (AUTOINCREMENT).                       *)

Row == [det : Detectors, type : AlarmTypes,
        status : {"active", "recovered", "deleted"}, fired : [RuleIds -> Nat]]

(* A state of the tables.  cond and episode are history: cond[d] is the    *)
(* last meaningful status ingested for d, and episode[d][r] the number of  *)
(* automatic records of rule r since that status was first seen.           *)
Tables == [alarms : Seq(Row), cond : [Detectors -> AlarmTypes \union {Normal}],
           episode : [Detectors -> [RuleIds -> Nat]]]

Silence == [r \in RuleIds |-> 0]

IsActive(row, d, t) == row.status = "active" /\ row.det = d /\ row.type = t

\* Linkage rules that list_matching returns for an alarm of type t on d.
Matching(d, t) ==
    {r \in RuleIds : /\ rules[r] \in RuleShapes
                     /\ rules[r].enabled
                     /\ objects[rules[r].object] = "enabled"
                     /\ rules[r].det \in {AnyDetector, d}
                     /\ rules[r].type \in {AnyType, t}
                     /\ rules[r].level \in {NoLevel, LevelOf[t]}}

\* find_active: the row create_active would find instead of inserting.
HasActive(rows, d, t) == \E i \in DOMAIN rows : IsActive(rows[i], d, t)

\* Mutant: a normal reading closes nothing.
BugRecoverOnAlarmOnly(rows, d, t) ==
    [i \in DOMAIN rows |->
        IF t # Normal /\ rows[i].status = "active" /\ rows[i].det = d /\ rows[i].type # t
        THEN [rows[i] EXCEPT !.status = "recovered"]
        ELSE rows[i]]

\* Close every active row of d whose type is not t.
RecoverOthers(rows, d, t) ==
    [i \in DOMAIN rows |->
        IF rows[i].status = "active" /\ rows[i].det = d /\ rows[i].type # t
        THEN [rows[i] EXCEPT !.status = "recovered"]
        ELSE rows[i]]

\* INSERT OR IGNORE against the unique (alarm, rule) index.
AddLinkage(n) == IF n = 0 THEN 1 ELSE n

\* The linkage records of a row after trigger_for_alarm.
TriggerForAlarm(fired, matched) ==
    [r \in RuleIds |-> IF r \in matched THEN AddLinkage(fired[r]) ELSE fired[r]]

\* ingest_readings creates a row only for an alarm status with no active row.
Opens(rows, rd) == rd.status \in AlarmTypes /\ ~ HasActive(rows, rd.det, rd.status)

\* An INVALID reading is skipped.
Ignored(rd) == rd.status = Invalid

IngestOne(D, rd) ==
    LET rows  == RecoverOthers(D.alarms, rd.det, rd.status)
        fired == IF Opens(rows, rd)
                 THEN TriggerForAlarm(Silence, Matching(rd.det, rd.status))
                 ELSE Silence
        base  == IF D.cond[rd.det] = rd.status THEN D.episode[rd.det] ELSE Silence
    IN  IF Ignored(rd)
        THEN D
        ELSE [alarms  |-> IF Opens(rows, rd)
                          THEN Append(rows, [det |-> rd.det, type |-> rd.status,
                                             status |-> "active", fired |-> fired])
                          ELSE rows,
              cond    |-> [D.cond EXCEPT ![rd.det] = rd.status],
              episode |-> [D.episode EXCEPT ![rd.det] =
                              [r \in RuleIds |-> base[r] + fired[r]]]]
-----------------------------------------------------------------------------
Init == /\ db = [alarms  |-> <<>>,
                 cond    |-> [d \in Detectors |-> Normal],
                 episode |-> [d \in Detectors |-> Silence]]
        /\ txn = NoTxn
        /\ rules = [r \in RuleIds |-> NoRow]
        /\ objects = [o \in ObjectIds |-> NoRow]
        /\ live = Detectors
        /\ manual = [o \in ObjectIds |-> 0]

Batches == UNION {[1..n -> Reading] : n \in 1..MaxBatch}

\* UnitOfWork.__enter__: BEGIN IMMEDIATE takes SQLite's write lock.
BeginIngest(b) ==
    /\ txn = NoTxn
    /\ txn' = [batch |-> b, done |-> 0, work |-> db]
    /\ UNCHANGED <<db, config>>

\* One turn of the loop over readings, on the transaction's own copy.
IngestReading ==
    /\ txn # NoTxn
    /\ txn.done < Len(txn.batch)
    /\ Len(txn.work.alarms) < MaxAlarms
    /\ txn' = [txn EXCEPT !.done = @ + 1,
                          !.work = IngestOne(@, txn.batch[txn.done + 1])]
    /\ UNCHANGED <<db, config>>

\* uow.commit() comes after the loop, not inside it.
\* Mutant: every row is committed by itself.
BugReadyToCommit == txn # NoTxn
ReadyToCommit == txn # NoTxn /\ txn.done = Len(txn.batch)

CommitIngest ==
    /\ ReadyToCommit
    /\ db' = txn.work
    /\ txn' = NoTxn
    /\ UNCHANGED config

\* An exception in the body, a failed COMMIT, or the process dying.
RollbackIngest ==
    /\ txn # NoTxn
    /\ txn' = NoTxn
    /\ UNCHANGED <<db, config>>

(* RecordService.  linkage_records.alarm_record_id is a foreign key, so a  *)
(* DELETE that would orphan a linkage record fails and removes nothing.    *)
\* Mutant: the foreign key is not looked at.
BugDeletable(S) == TRUE
Deletable(S) == \A i \in S : db.alarms[i].fired = Silence

DeleteRows(S) ==
    /\ txn = NoTxn
    /\ S # {} /\ Deletable(S)
    /\ db' = [db EXCEPT !.alarms = [i \in DOMAIN @ |->
                 IF i \in S THEN [@[i] EXCEPT !.status = "deleted"] ELSE @[i]]]
    /\ UNCHANGED <<txn, config>>

Present == {i \in DOMAIN db.alarms : db.alarms[i].status # "deleted"}

DeleteRecord(i) == i \in Present /\ DeleteRows({i})

\* The filters of clear_records: detector, status and a window of start times
\* (rows are numbered in the order of their start times).
ClearRecords(d, s, window) ==
    DeleteRows({i \in Present \cap window : /\ d \in {AnyDetector, db.alarms[i].det}
                                            /\ s \in {"any", db.alarms[i].status}})

SaveObject(o, enabled) ==
    /\ txn = NoTxn
    /\ objects[o] # Deleted
    /\ objects' = [objects EXCEPT ![o] = IF enabled THEN "enabled" ELSE "disabled"]
    /\ UNCHANGED <<db, txn, rules, live, manual>>

LiveObject(o) == objects[o] \in {"enabled", "disabled"}

DeleteObject(o) ==
    /\ txn = NoTxn
    /\ LiveObject(o)
    /\ objects' = [objects EXCEPT ![o] = Deleted]
    /\ UNCHANGED <<db, txn, rules, live, manual>>

SaveRule(r, shape) ==
    /\ txn = NoTxn
    /\ LiveObject(shape.object)
    /\ shape.det \in live \union {AnyDetector}
    /\ rules[r] # Deleted
    /\ rules' = [rules EXCEPT ![r] = shape]
    /\ UNCHANGED <<db, txn, objects, live, manual>>

DeleteRule(r) ==
    /\ txn = NoTxn
    /\ rules[r] \in RuleShapes
    /\ rules' = [rules EXCEPT ![r] = Deleted]
    /\ UNCHANGED <<db, txn, objects, live, manual>>

ManualControl(o) ==
    /\ txn = NoTxn
    /\ LiveObject(o)
    /\ manual[o] < MaxManual
    /\ manual' = [manual EXCEPT ![o] = @ + 1]
    /\ UNCHANGED <<db, txn, rules, objects, live>>

\* DeviceConfigService.delete_detector: alarms and rules are left as they are.
DeleteDetector(d) ==
    /\ txn = NoTxn
    /\ d \in live
    /\ live' = live \ {d}
    /\ UNCHANGED <<db, txn, rules, objects, manual>>

Ingest == \/ \E b \in Batches : BeginIngest(b)
          \/ IngestReading \/ CommitIngest \/ RollbackIngest

Records == \/ \E i \in 1..MaxAlarms : DeleteRecord(i)
           \/ \E d \in Detectors \union {AnyDetector}, s \in {"any", "active", "recovered"},
                 from, to \in 1..MaxAlarms : ClearRecords(d, s, from..to)

Configure == \/ \E o \in ObjectIds : \/ \E e \in BOOLEAN : SaveObject(o, e)
                                     \/ DeleteObject(o)
                                     \/ ManualControl(o)
             \/ \E r \in RuleIds : \/ \E s \in RuleShapes : SaveRule(r, s)
                                   \/ DeleteRule(r)
             \/ \E d \in Detectors : DeleteDetector(d)

Next == Ingest \/ Records \/ Configure

Spec == Init /\ [][Next]_vars
-----------------------------------------------------------------------------
Txns == [batch : Seq(Reading), done : Nat, work : Tables]

ASSUME NoTxnAssumption == NoTxn \notin Txns \union Batches

\* Every variable holds a value of its kind.
TypeOK == /\ db \in Tables
          /\ txn \in Txns \union {NoTxn}
          /\ rules \in [RuleIds -> RuleShapes \union {NoRow, Deleted}]
          /\ objects \in [ObjectIds -> {NoRow, Deleted, "enabled", "disabled"}]
          /\ live \subseteq Detectors
          /\ manual \in [ObjectIds -> Nat]

\* A detector has at most one active alarm row, although the table's unique
\* index only forbids two of the same type: ingest_readings must close the
\* others before it inserts (alarm_service.py:70-91).
OneActive ==
    \A i, j \in DOMAIN db.alarms :
        /\ db.alarms[i].status = "active" /\ db.alarms[j].status = "active"
        /\ db.alarms[i].det = db.alarms[j].det
        => i = j

\* An active row always names the condition its detector last reported: no
\* row stays active across a change of status, in any batch, with rollbacks.
ActiveIsCurrent ==
    \A i \in DOMAIN db.alarms :
        db.alarms[i].status = "active" => db.alarms[i].type = db.cond[db.alarms[i].det]

\* The active rows tell what the detectors last said, through every batch and
\* rollback: one row at most, and it names the present condition.
AlarmsTellConditions == TypeOK /\ OneActive /\ ActiveIsCurrent

\* Within one alarm period of a detector each rule is triggered at most once,
\* even when an administrator deletes the active row in the middle of the
\* period and the next reading opens another (the foreign key prevents it
\* exactly for the rows that have already triggered something).
LinkageOncePerPeriod ==
    \A d \in Detectors, r \in RuleIds : db.episode[d][r] <= 1

\* Every row of old is still there in new: it keeps its identity and its
\* linkage records, is never re-opened, and if it triggered linkage not erased.
Continues(old, new) ==
    \A i \in DOMAIN old :
        /\ i \in DOMAIN new
        /\ new[i].det = old[i].det /\ new[i].type = old[i].type
        /\ new[i].fired = old[i].fired
        /\ old[i].status = "recovered" => new[i].status # "active"
        /\ old[i].status = "deleted" => new[i].status = "deleted"
        /\ old[i].status # "deleted" /\ old[i].fired # Silence => new[i].status # "deleted"

\* Committed alarm rows keep their history, over whole transactions.
HistoryKept == [][Continues(db.alarms, db'.alarms)]_db

(* Why OneActive, ActiveIsCurrent and LinkageOncePerPeriod are stable: the  *)
(* tables, committed or in the open transaction, also remember for every   *)
(* rule triggered in the current period an active row that carries its     *)
(* record, and such a row can be neither deleted nor inserted again.       *)
ActiveRow(D, i)  == i \in DOMAIN D.alarms /\ D.alarms[i].status = "active"

OneActiveIn(D) == \A i, j \in DOMAIN D.alarms :
    ActiveRow(D, i) /\ ActiveRow(D, j) /\ D.alarms[i].det = D.alarms[j].det => i = j

CurrentIn(D) == \A i \in DOMAIN D.alarms :
    ActiveRow(D, i) => D.alarms[i].type = D.cond[D.alarms[i].det]

OnceIn(D) == \A d \in Detectors, r \in RuleIds : D.episode[d][r] <= 1

WitnessIn(D) == \A d \in Detectors, r \in RuleIds :
    D.episode[d][r] # 0 =>
        \E i \in DOMAIN D.alarms :
            ActiveRow(D, i) /\ D.alarms[i].det = d /\ D.alarms[i].fired[r] # 0

Consistent(D) == OneActiveIn(D) /\ CurrentIn(D) /\ OnceIn(D) /\ WitnessIn(D)

IInv == /\ TypeOK
        /\ Consistent(db)
        /\ txn # NoTxn => /\ Consistent(txn.work)
                          /\ Continues(db.alarms, txn.work.alarms)

\* The alarm table implements the condition-per-detector view: each batch is
\* taken in as a whole or not at all (AlarmPeriods).
TypeIn(D, d) ==
    LET Of(i) == D.alarms[i].status = "active" /\ D.alarms[i].det = d
    IN  IF \E i \in DOMAIN D.alarms : Of(i)
        THEN D.alarms[CHOOSE i \in DOMAIN D.alarms : Of(i)].type
        ELSE Normal

ActiveType(d) == TypeIn(db, d)

Periods == INSTANCE AlarmPeriods WITH
              Conditions <- Statuses,
              NoBatch    <- NoTxn,
              current    <- [d \in Detectors |-> ActiveType(d)],
              pending    <- IF txn = NoTxn THEN NoTxn ELSE txn.batch

ImplementsPeriods == Periods!Spec

\* Why it does: in the middle of a batch, the last meaningful reading taken in so
\* far decides what the transaction's own tables say of its detector, and without
\* one they say what the committed tables do.
TellsOf(b, i, d) == b[i].det = d /\ b[i].status # Invalid

TakenIn ==
    txn # NoTxn =>
        /\ txn.batch \in Batches /\ txn.done <= Len(txn.batch)
        /\ \A d \in Detectors :
              \/ \E i \in 1..txn.done :
                    /\ TellsOf(txn.batch, i, d)
                    /\ \A j \in 1..txn.done : TellsOf(txn.batch, j, d) => j <= i
                    /\ TypeIn(txn.work, d) = txn.batch[i].status
              \/ /\ \A j \in 1..txn.done : ~ TellsOf(txn.batch, j, d)
                 /\ TypeIn(txn.work, d) = TypeIn(db, d)
=============================================================================

--------------------------- MODULE BackupRestore ---------------------------
(***************************************************************************)
(* Backup, restore and the backup schedule (services/backup_service.py,    *)
(* services/backup_package.py, core/scheduler.py).                         *)
(*                                                                         *)
(* The user interface calls the service from one thread, one call at a     *)
(* time: ui is the progress of that call.  Every registration of the       *)
(* scheduled backup is a scheduler thread of its own, which outlives its   *)
(* cancellation by as long as its callback takes.  Acquisition takes part  *)
(* only by holding its runtime lock; module Acquisition has the rest.      *)
(***************************************************************************)
EXTENDS Naturals, RuntimeLocks

CONSTANTS Files,          \* the package holds files 1..Files; file 1 is the database
          Jobs,           \* bound: scheduler threads of the backup job alive at once
          Faults          \* what may go wrong besides a refused lock and a failed copy

Database == 1

ASSUME BackupRestoreAssumption ==
    /\ Files \in Nat \ {0}
    /\ Jobs \cap {"ui", "none"} = {}
    /\ Faults \subseteq {"restart",     \* the process dies and is started again
                      "settings",    \* the settings cannot be read after a restore
                      "rollback"}    \* a file cannot be put back

VARIABLES ui,           \* where the call from the user interface is
          step,         \* the file restore or rollback works on
          paused,       \* _scheduled_paused
          registered,   \* the job in Scheduler._jobs, or NoJob
          jobs,         \* jobs[j]: the state of scheduler thread j
          cancelled,    \* jobs whose _cancelled event is set
          enabled,      \* backup_settings.scheduled_enabled in the live database
          files,        \* files[f]: "old", or "new" when taken from the package
          originals,    \* the copies of the files taken before they are replaced
          kept,         \* scheduled_enabled of the original database
          unsettled,    \* history: the schedule was not configured since a restart or
                        \* since a restore that could not read its settings
          spoiled,      \* history: a file could not be put back in this restore
          overlapped    \* history: two backups at once since the last moment without one

scheduleVars == <<paused, registered, jobs, cancelled, unsettled>>
copyVars     == <<originals, kept, spoiled>>
dataVars     == <<enabled, files, copyVars>>
vars == <<active, ui, step, scheduleVars, dataVars, overlapped>>

NoJob == "none"
AllOld == [f \in 1..Files |-> "old"]
AllNew == [f \in 1..Files |-> "new"]

Building(j) == jobs[j] = "building"
BackupsActive == {j \in Jobs : Building(j)} \union (IF ui = "backing up" THEN {"ui"} ELSE {})
BackupBegins == overlapped' = (overlapped \/ BackupsActive # {})
BackupEnds   == overlapped' = (overlapped /\ BackupsActive' # {})

Init == /\ active = {} /\ ui = "idle" /\ step = 1
        /\ paused = FALSE /\ registered = NoJob
        /\ jobs = [j \in Jobs |-> "unused"] /\ cancelled = {}
        /\ enabled = FALSE /\ files = AllOld
        /\ originals = AllOld /\ kept = FALSE /\ spoiled = FALSE
        /\ overlapped = FALSE /\ unsettled = FALSE
-----------------------------------------------------------------------------
(* The schedule.                                                           *)

\* _configure_schedule_from_settings: cancel, then register if enabled.  The
\* cancelled thread leaves when its callback is over.
\* Mutant: the registered job is replaced, never only cancelled.
BugConfigure(on) ==
    \E j \in Jobs :
        /\ jobs[j] = "unused"
        /\ registered' = IF on THEN j ELSE registered
        /\ cancelled' = IF on /\ registered # NoJob THEN cancelled \union {registered}
                        ELSE cancelled
        /\ jobs' = IF on THEN [jobs EXCEPT ![j] = "waiting"] ELSE jobs
        /\ unsettled' = FALSE

Configure(on) ==
    \E j \in Jobs :
        /\ jobs[j] = "unused"
        /\ cancelled' = IF registered = NoJob THEN cancelled ELSE cancelled \union {registered}
        /\ registered' = IF on THEN j ELSE NoJob
        /\ jobs' = IF on THEN [jobs EXCEPT ![j] = "waiting"] ELSE jobs
        /\ unsettled' = FALSE

\* update_settings commits the row first and configures the scheduler after it.
UpdateSettings(on) ==
    /\ ui = "idle" /\ ui' = "configuring"
    /\ enabled' = on
    /\ UNCHANGED <<active, step, scheduleVars, files, copyVars, overlapped>>

ConfigureFromSettings ==
    /\ ui = "configuring" /\ ui' = "idle"
    /\ Configure(enabled)
    /\ UNCHANGED <<active, step, paused, dataVars, overlapped>>

JobStep(j, from, to) == jobs[j] = from /\ jobs' = [jobs EXCEPT ![j] = to]

\* The interval has passed; the callback looks at the pause flag, then at the
\* settings, and only then asks for the lock.
JobFires(j) ==
    /\ j \notin cancelled /\ ~ paused
    /\ JobStep(j, "waiting", "due")
    /\ UNCHANGED <<active, ui, step, paused, unsettled, registered, cancelled, dataVars, overlapped>>

JobReadsSettings(j) ==
    /\ JobStep(j, "due", IF enabled THEN "asking" ELSE "waiting")
    /\ UNCHANGED <<active, ui, step, paused, unsettled, registered, cancelled, dataVars, overlapped>>

\* Mutant: the pause flag is trusted, the lock only marked.
BugJobBuilds(j) ==
    /\ JobStep(j, "asking", "building")
    /\ active' = active \union {"backup"} /\ BackupBegins
    /\ UNCHANGED <<ui, step, paused, unsettled, registered, cancelled, dataVars>>

JobBuilds(j) ==
    /\ \/ ~ HasConflict("backup") /\ JobStep(j, "asking", "building")
          /\ Acquire("backup") /\ BackupBegins
       \/ HasConflict("backup") /\ JobStep(j, "asking", "waiting")
          /\ UNCHANGED <<active, overlapped>>
    /\ UNCHANGED <<ui, step, paused, unsettled, registered, cancelled, dataVars>>

\* The package is complete, or building it failed; the lock is released.
JobFinishes(j) ==
    /\ JobStep(j, "building", "waiting")
    /\ Release("backup")
    /\ UNCHANGED <<ui, step, paused, unsettled, registered, cancelled, dataVars>>
    /\ BackupEnds

JobThreadEnds(j) ==
    /\ j \in cancelled /\ jobs[j] = "waiting"
    /\ jobs' = [jobs EXCEPT ![j] = "unused"] /\ cancelled' = cancelled \ {j}
    /\ UNCHANGED <<active, ui, step, paused, unsettled, registered, dataVars, overlapped>>
-----------------------------------------------------------------------------
(* Manual backup.                                                          *)

ManualBegins ==
    /\ ui = "idle" /\ ui' = "backing up"
    /\ Acquire("backup") /\ BackupBegins
    /\ UNCHANGED <<step, scheduleVars, dataVars>>

ManualEnds ==
    /\ ui = "backing up" /\ ui' = "idle"
    /\ Release("backup")
    /\ UNCHANGED <<step, scheduleVars, dataVars>>
    /\ BackupEnds
-----------------------------------------------------------------------------
(* Restore, confirmed and with a valid package.                            *)

\* _pause_scheduled_backup.
RestorePauses ==
    /\ ui = "idle" /\ ui' = "pausing"
    /\ paused' = TRUE
    /\ cancelled' = IF registered = NoJob THEN cancelled ELSE cancelled \union {registered}
    /\ registered' = NoJob
    /\ UNCHANGED <<active, step, jobs, unsettled, dataVars, overlapped>>

RestoreAcquires ==
    /\ ui = "pausing"
    /\ IF HasConflict("restore")
       THEN ui' = "resuming" /\ UNCHANGED active
       ELSE ui' = "restoring" /\ Acquire("restore")
    /\ UNCHANGED <<step, scheduleVars, dataVars, overlapped>>

\* The safety backup, whose failure is tolerated, and the staging of the
\* package, which validates it again.
RestoreStages ==
    /\ ui = "restoring"
    /\ ui' = "replacing" /\ step' = 1 /\ originals' = files /\ kept' = enabled
    /\ UNCHANGED <<active, scheduleVars, enabled, files, spoiled, overlapped>>

\* One file of the package; the backup settings come with the database.
ReplaceFile ==
    /\ ui = "replacing" /\ step <= Files
    /\ files' = [files EXCEPT ![step] = "new"] /\ step' = step + 1
    /\ enabled' \in IF step = Database THEN BOOLEAN ELSE {enabled}
    /\ UNCHANGED <<active, ui, scheduleVars, copyVars, overlapped>>

\* Copying the original aside, or the new file into place, fails: this file
\* is as it was and the earlier ones are put back, last first.
ReplaceFails ==
    /\ ui = "replacing" /\ step <= Files
    /\ ui' = "rolling back" /\ step' = step - 1
    /\ UNCHANGED <<active, scheduleVars, dataVars, overlapped>>

\* Mutant: the first file is forgotten.
BugRollbackPending == ui = "rolling back" /\ step > 1
RollbackPending == ui = "rolling back" /\ step > 0

\* An error here is only logged, and the next file is tried.
RollBackFile ==
    /\ RollbackPending /\ step' = step - 1
    /\ \/ /\ files' = [files EXCEPT ![step] = originals[step]]
          /\ enabled' = IF step = Database THEN kept ELSE enabled
          /\ UNCHANGED spoiled
       \/ "rollback" \in Faults /\ spoiled' = TRUE /\ UNCHANGED <<files, enabled>>
    /\ UNCHANGED <<active, ui, scheduleVars, originals, kept, overlapped>>

\* Before the replacement begins an error needs no rollback.
RestoreGivesUp ==
    /\ ui = "restoring"
    /\ ui' = "resuming" /\ Release("restore")
    /\ UNCHANGED <<step, scheduleVars, dataVars, overlapped>>

\* The lock is released whether the files were replaced or put back.
RestoreReleases ==
    /\ \/ ui = "replacing" /\ step > Files
       \/ ui = "rolling back" /\ ~ RollbackPending
    /\ ui' = "resuming" /\ Release("restore")
    /\ UNCHANGED <<step, scheduleVars, dataVars, overlapped>>

\* Mutant: the pause flag is left set.
BugUnpause == UNCHANGED paused
Unpause == paused' = FALSE

\* _resume_scheduled_backup, in the finally clause: the settings are those of
\* the database that is now in place.  The next restore starts from its files.
RestoreResumes ==
    /\ ui = "resuming" /\ ui' = "idle"
    /\ Unpause
    /\ \/ Configure(enabled)
       \/ /\ "settings" \in Faults /\ unsettled' = TRUE
          /\ UNCHANGED <<registered, jobs, cancelled>>
    /\ files' = IF files = AllNew THEN AllOld ELSE files
    /\ originals' = files' /\ spoiled' = FALSE
    /\ UNCHANGED <<active, step, enabled, kept, overlapped>>
-----------------------------------------------------------------------------
(* The surroundings.                                                       *)

AcquisitionStarts == /\ Acquire("acquisition")
                     /\ UNCHANGED <<ui, step, scheduleVars, dataVars, overlapped>>
AcquisitionStops  == /\ "acquisition" \in active /\ Release("acquisition")
                     /\ UNCHANGED <<ui, step, scheduleVars, dataVars, overlapped>>

\* The process dies and is started again: the threads and locks are gone, the
\* files stay as they are, and nothing registers the schedule.
Restart ==
    /\ "restart" \in Faults
    /\ active' = {} /\ ui' = "idle" /\ paused' = FALSE
    /\ registered' = NoJob /\ jobs' = [j \in Jobs |-> "unused"] /\ cancelled' = {}
    /\ overlapped' = FALSE /\ unsettled' = TRUE
    /\ originals' = files /\ spoiled' = FALSE
    /\ UNCHANGED <<step, enabled, files, kept>>

Job(j) == \/ JobFires(j) \/ JobReadsSettings(j) \/ JobBuilds(j) \/ JobFinishes(j)
          \/ JobThreadEnds(j)

Manual == ManualBegins \/ ManualEnds

Restore == \/ RestorePauses \/ RestoreAcquires \/ RestoreStages \/ ReplaceFile
           \/ ReplaceFails \/ RollBackFile \/ RestoreGivesUp \/ RestoreReleases
           \/ RestoreResumes

Next == \/ \E on \in BOOLEAN : UpdateSettings(on)
        \/ ConfigureFromSettings
        \/ \E j \in Jobs : Job(j)
        \/ Manual \/ Restore
        \/ AcquisitionStarts \/ AcquisitionStops \/ Restart

Spec == Init /\ [][Next]_vars

\* A call and a callback, once begun, are carried on by their threads.
Fairness ==
    /\ WF_vars(ConfigureFromSettings) /\ WF_vars(ManualEnds)
    /\ WF_vars(RestoreAcquires \/ RestoreStages \/ ReplaceFile \/ RollBackFile
               \/ RestoreReleases \/ RestoreResumes)
    /\ \A j \in Jobs : WF_vars(JobReadsSettings(j) \/ JobBuilds(j) \/ JobFinishes(j)
                            \/ JobThreadEnds(j))

FairSpec == Spec /\ Fairness
-----------------------------------------------------------------------------
\* Every variable holds a value of its kind.
TypeOK ==
    /\ active \subseteq Operations
    /\ ui \in {"idle", "configuring", "backing up", "pausing", "restoring", "replacing",
               "rolling back", "resuming"}
    /\ step \in 0..(Files + 1)
    /\ paused \in BOOLEAN /\ registered \in Jobs \union {NoJob}
    /\ jobs \in [Jobs -> {"unused", "waiting", "due", "asking", "building"}]
    /\ cancelled \subseteq Jobs
    /\ enabled \in BOOLEAN /\ kept \in BOOLEAN
    /\ files \in [1..Files -> {"old", "new"}] /\ originals \in [1..Files -> {"old", "new"}]
    /\ overlapped \in BOOLEAN /\ unsettled \in BOOLEAN /\ spoiled \in BOOLEAN

Replacing == ui \in {"restoring", "replacing", "rolling back"}

\* Restore and backup never work at the same time, and restore and acquisition
\* never hold their locks together, as long as no two backups have overlapped:
\* the manager remembers names, not holders.
BackupExcludesRestore ==
    Replacing => /\ "acquisition" \notin active
                 /\ ~ overlapped => BackupsActive = {}

\* No backup begins while a restore is at work, overlapped or not: a thread
\* that passed the pause flag earlier is stopped by the lock.
NoBackupBeginsInRestore ==
    [][Replacing /\ Replacing' => \A j \in Jobs : Building(j)' => Building(j)]_vars

\* Between calls the scheduler holds a job only when the settings, which a
\* restore may have replaced or put back, say so; and it holds one whenever they
\* say so, except from a restart, or a restore that could not read them, until
\* they are saved or restored again.  Nothing stays paused.
ScheduleFollowsSettings ==
    ui = "idle" => /\ registered # NoJob => enabled /\ registered \notin cancelled
                   /\ enabled /\ ~ unsettled => registered # NoJob
                   /\ ~ paused

\* A restore that comes to its end, done, refused or failed at any file, leaves
\* every file taken from the package or every file as it found it, mixed or not,
\* unless a file could not be put back.
AllOrNothing == ui = "resuming" /\ ~ spoiled => files \in {AllNew, originals}

\* A restore ends its pause of the schedule whichever way it ends: refused,
\* failed, rolled back or done.
PauseEnds == paused ~> ~ paused

\* A restore works alone: what holds a lock when it starts is excluded, and
\* nothing begins beside it.
RestoreIsAlone == [](TypeOK /\ BackupExcludesRestore) /\ NoBackupBeginsInRestore
=============================================================================

------------------------ MODULE BackupRestoreProofs ------------------------
(***************************************************************************)
(* Proofs about BackupRestore, for every number of files and scheduler     *)
(* threads and whatever may fail.  Three invariants that do not touch each *)
(* other: who holds the locks, what the scheduler has registered, and how  *)
(* far the files are replaced or put back.                                 *)
(*                                                                         *)
(* Then about BackupShelf, for any maps, directories, settings, foreign    *)
(* packages and bounds: that a package that passes the check has the files *)
(* of its maps, and that of every record there is its package, or one as   *)
(* new, on the shelf.                                                      *)
(***************************************************************************)
EXTENDS BackupSide, FiniteSetTheorems, TLAPS

\* A restore at work holds the only lock; one backup at work holds the backup
\* lock, but two of them may have lost it.
LockInv ==
    /\ active \subseteq {"backup", "restore", "acquisition"}
    /\ Replacing <=> "restore" \in active
    /\ "restore" \in active => active = {"restore"}
    /\ ~ overlapped => /\ \A a, b \in BackupsActive : a = b
                       /\ BackupsActive # {} => "backup" \in active

\* Between calls the scheduler follows the settings; during a restore it has
\* nothing registered.
ScheduleInv ==
    /\ registered # NoJob => registered \notin cancelled /\ jobs[registered] # "unused"
    /\ \A j \in cancelled : jobs[j] # "unused"
    /\ ui \in {"idle", "backing up"} =>
          /\ registered # NoJob => enabled
          /\ enabled /\ ~ unsettled => registered # NoJob
    /\ ui \in {"idle", "backing up", "configuring"} => ~ paused
    /\ ui \notin {"idle", "backing up", "configuring"} => registered = NoJob

Replaced(n) == \A f \in 1..Files : files[f] = IF f <= n THEN "new" ELSE originals[f]

FilesInv ==
    /\ ui \notin {"rolling back", "resuming"} => ~ spoiled
    /\ ui \notin {"replacing", "rolling back", "resuming"} => files = originals
    /\ ui = "replacing" => step \in 1..(Files + 1) /\ Replaced(step - 1)
    /\ ui = "rolling back" => step \in 0..Files /\ (spoiled \/ Replaced(step))
    /\ ui = "resuming" => spoiled \/ files = AllNew \/ files = originals
-----------------------------------------------------------------------------
\* What the table of conflicts says of the three operations of this module.
LEMMA Conflicts ==
    /\ HasConflict("backup") <=> active \cap {"restore", "migration"} # {}
    /\ HasConflict("restore") <=> active \cap {"acquisition", "backup", "migration"} # {}
    /\ HasConflict("acquisition") <=> active \cap {"restore", "migration"} # {}
BY DEF HasConflict, CONFLICTS

LEMMA Distinct == "ui" \notin Jobs /\ NoJob \notin Jobs
BY BackupRestoreAssumption DEF NoJob

LEMMA Numbers == /\ Files \in Nat /\ Files >= 1
                 /\ 1 \in 0..(Files + 1) /\ 1 \in 1..(Files + 1)
BY BackupRestoreAssumption

LEMMA StepBack ==
    ASSUME NEW n, NEW m, n \in 0..(Files + 1), n > 0, n <= Files, m = n - 1
    PROVE  n \in 1..Files /\ m \in 0..Files
BY BackupRestoreAssumption

JobStates == {"unused", "waiting", "due", "asking", "building"}

LEMMA TypeInit == ASSUME Init PROVE TypeOK
<1>1. files \in [1..Files -> {"old", "new"}] /\ originals \in [1..Files -> {"old", "new"}]
  BY DEF Init, AllOld
<1>2. jobs \in [Jobs -> JobStates]
  BY DEF Init, JobStates
<1>3. QED
  BY <1>1, <1>2, Numbers DEF Init, TypeOK, JobStates

LEMMA ConfigureType ==
    ASSUME TypeOK, Configure(enabled)
    PROVE  /\ jobs' \in [Jobs -> JobStates] /\ registered' \in Jobs \union {NoJob}
           /\ cancelled' \subseteq Jobs /\ unsettled' \in BOOLEAN
BY DEF TypeOK, Configure, JobStates

LEMMA JobType ==
    ASSUME TypeOK, NEW j \in Jobs, Job(j) PROVE TypeOK'
<1>1. /\ jobs' \in [Jobs -> JobStates]
      /\ active' \in {active, active \union {"backup"}, active \ {"backup"}}
      /\ overlapped' \in BOOLEAN /\ cancelled' \subseteq cancelled
  BY DEF Job, JobFires, JobReadsSettings, JobBuilds, JobFinishes, JobThreadEnds, JobStep,
         Acquire, Release, BackupBegins, BackupEnds, TypeOK, JobStates
<1>2. UNCHANGED <<ui, step, paused, unsettled, registered, enabled, files, originals, kept, spoiled>>
  BY DEF Job, JobFires, JobReadsSettings, JobBuilds, JobFinishes, JobThreadEnds, dataVars, copyVars
<1>3. QED
  BY <1>1, <1>2 DEF TypeOK, JobStates, Operations

LEMMA FilesType ==
    ASSUME TypeOK, FilesInv, ReplaceFile \/ ReplaceFails \/ RollBackFile PROVE TypeOK'
<1>1. CASE ReplaceFile
  <2>1. step' \in 0..(Files + 1)
    BY <1>1, Numbers DEF ReplaceFile, TypeOK
  <2>2. files' \in [1..Files -> {"old", "new"}] /\ enabled' \in BOOLEAN
    BY <1>1 DEF ReplaceFile, TypeOK
  <2>3. QED
    BY <1>1, <2>1, <2>2 DEF ReplaceFile, TypeOK, scheduleVars, copyVars
<1>2. CASE ReplaceFails
  <2>1. step' \in 0..(Files + 1)
    <3>1. step \in 1..(Files + 1) /\ step' = step - 1
      BY <1>2 DEF ReplaceFails, FilesInv
    <3>2. QED
      BY <3>1, Numbers
  <2>2. QED
    BY <1>2, <2>1 DEF ReplaceFails, TypeOK, scheduleVars, dataVars, copyVars
<1>3. CASE RollBackFile
  <2>1. step' \in 0..(Files + 1)
    <3>1. step \in 0..(Files + 1) /\ step > 0 /\ step' = step - 1
      BY <1>3 DEF RollBackFile, RollbackPending, TypeOK
    <3>2. QED
      BY <3>1, Numbers
  <2>2. files' \in [1..Files -> {"old", "new"}] /\ enabled' \in BOOLEAN /\ spoiled' \in BOOLEAN
    BY <1>3 DEF RollBackFile, TypeOK
  <2>3. QED
    BY <1>3, <2>1, <2>2 DEF RollBackFile, TypeOK, scheduleVars
<1>4. QED
  BY <1>1, <1>2, <1>3

LEMMA OtherType ==
    ASSUME TypeOK, NEW on \in BOOLEAN,
           \/ UpdateSettings(on) \/ ConfigureFromSettings \/ Manual
           \/ RestorePauses \/ RestoreAcquires \/ RestoreStages \/ RestoreGivesUp
           \/ RestoreReleases \/ RestoreResumes
           \/ AcquisitionStarts \/ AcquisitionStops \/ Restart \/ UNCHANGED vars
    PROVE  TypeOK'
<1>1. CASE ConfigureFromSettings
  BY <1>1, ConfigureType
     DEF ConfigureFromSettings, TypeOK, dataVars, copyVars, JobStates
<1>2. CASE RestoreResumes
  <2>1. /\ jobs' \in [Jobs -> JobStates] /\ registered' \in Jobs \union {NoJob}
        /\ cancelled' \subseteq Jobs /\ unsettled' \in BOOLEAN
    BY <1>2, ConfigureType DEF RestoreResumes, TypeOK, JobStates
  <2>2. files' \in [1..Files -> {"old", "new"}] /\ originals' \in [1..Files -> {"old", "new"}]
    BY <1>2 DEF RestoreResumes, TypeOK, AllOld
  <2>3. QED
    BY <1>2, <2>1, <2>2 DEF RestoreResumes, Unpause, TypeOK, JobStates
<1>3. CASE Restart
  BY <1>3 DEF Restart, TypeOK
<1>4. CASE RestorePauses \/ RestoreStages
  BY <1>4, Numbers DEF RestorePauses, RestoreStages, TypeOK, scheduleVars, dataVars, copyVars
<1>5. CASE \/ UpdateSettings(on) \/ Manual \/ RestoreAcquires \/ RestoreGivesUp
           \/ RestoreReleases \/ AcquisitionStarts \/ AcquisitionStops \/ UNCHANGED vars
  <2>1. active' \subseteq Operations
    BY <1>5 DEF UpdateSettings, Manual, ManualBegins, ManualEnds, RestoreAcquires, RestoreGivesUp,
       RestoreReleases, AcquisitionStarts, AcquisitionStops, vars, Acquire, Release, Operations, TypeOK
  <2>2. UNCHANGED <<step, paused, registered, jobs, cancelled, unsettled, files, originals, kept,
                    spoiled>>
    BY <1>5 DEF UpdateSettings, Manual, ManualBegins, ManualEnds, RestoreAcquires, RestoreGivesUp,
       RestoreReleases, AcquisitionStarts, AcquisitionStops, vars, scheduleVars, dataVars, copyVars
  <2>3. ui' \in {ui, "configuring", "backing up", "idle", "resuming", "restoring"}
    BY <1>5 DEF UpdateSettings, Manual, ManualBegins, ManualEnds, RestoreAcquires, RestoreGivesUp,
       RestoreReleases, AcquisitionStarts, AcquisitionStops, vars
  <2>4. overlapped' \in BOOLEAN /\ enabled' \in BOOLEAN
    BY <1>5 DEF UpdateSettings, Manual, ManualBegins, ManualEnds, RestoreAcquires, RestoreGivesUp,
       RestoreReleases, AcquisitionStarts, AcquisitionStops, vars, dataVars, BackupBegins,
       BackupEnds, TypeOK
  <2>5. QED
    BY <2>1, <2>2, <2>3, <2>4 DEF TypeOK
<1>6. QED
  BY <1>1, <1>2, <1>3, <1>4, <1>5

LEMMA TypeStep == ASSUME TypeOK, FilesInv, [Next]_vars PROVE TypeOK'
BY JobType, FilesType, OtherType DEF Next, Restore
-----------------------------------------------------------------------------
(* The files.                                                              *)

LEMMA FilesStep == ASSUME TypeOK, FilesInv, [Next]_vars PROVE FilesInv'
<1> USE Numbers
<1>1. CASE ReplaceFile
  <2>1. /\ ui = "replacing" /\ ui' = "replacing" /\ step \in 1..Files /\ step' = step + 1
        /\ files' = [files EXCEPT ![step] = "new"] /\ UNCHANGED <<originals, spoiled>>
        /\ Replaced(step - 1) /\ ~ spoiled
    BY <1>1 DEF ReplaceFile, FilesInv, copyVars
  <2>2. files \in [1..Files -> {"old", "new"}]
    BY DEF TypeOK
  <2>3. Replaced(step - 1)'
    BY <2>1, <2>2 DEF Replaced
  <2>4. step' \in 1..(Files + 1)
    BY <2>1
  <2>5. QED
    BY <2>1, <2>3, <2>4 DEF FilesInv
<1>2. CASE ReplaceFails
  <2>1. /\ ui = "replacing" /\ ui' = "rolling back" /\ step <= Files /\ step' = step - 1
        /\ UNCHANGED <<files, originals, spoiled>>
    BY <1>2 DEF ReplaceFails, dataVars, copyVars
  <2>2. Replaced(step - 1) /\ ~ spoiled
    BY <2>1 DEF FilesInv
  <2>3. step \in 1..(Files + 1)
    BY <2>1 DEF FilesInv
  <2>4. step' \in 0..Files
    <3>1. step \in 0..(Files + 1)
      BY <2>3
    <3>2. step > 0
      BY <2>3
    <3>3. step <= Files
      BY <2>1, Zenon
    <3>4. step' = step - 1
      BY <2>1, Zenon
    <3>5. QED
      BY <3>1, <3>2, <3>3, <3>4, StepBack, Zenon
  <2>5. Replaced(step)'
    BY <2>1, <2>2 DEF Replaced
  <2>6. QED
    BY <2>1, <2>4, <2>5 DEF FilesInv
<1>3. CASE RollBackFile
  <2>1. /\ ui = "rolling back" /\ ui' = "rolling back" /\ step > 0 /\ step' = step - 1
        /\ originals' = originals
    BY <1>3 DEF RollBackFile, RollbackPending
  <2>0. spoiled \/ Replaced(step)
    BY <2>1 DEF FilesInv
  <2>7. step \in 0..Files
    BY <2>1 DEF FilesInv
  <2>2. step \in 1..Files /\ step' \in 0..Files
    <3>1. step \in 0..(Files + 1)
      BY <2>7
    <3>2. step > 0
      BY <2>1, Zenon
    <3>3. step <= Files
      BY <2>7
    <3>4. step' = step - 1
      BY <2>1, Zenon
    <3>5. QED
      BY <3>1, <3>2, <3>3, <3>4, StepBack, Zenon
  <2>3. \/ files' = [files EXCEPT ![step] = originals[step]] /\ spoiled' = spoiled
        \/ spoiled' = TRUE
    BY <1>3 DEF RollBackFile
  <2>4. ASSUME files' = [files EXCEPT ![step] = originals[step]], Replaced(step)
        PROVE  Replaced(step)'
    <3>1. files \in [1..Files -> {"old", "new"}]
      BY DEF TypeOK
    <3>2. \A f \in 1..Files : files'[f] = IF f <= step - 1 THEN "new" ELSE originals[f]
      BY <2>2, <2>4, <3>1 DEF Replaced
    <3>3. QED
      BY <2>1, <3>2 DEF Replaced
  <2>5. spoiled' \/ Replaced(step)'
    BY <2>0, <2>3, <2>4
  <2>6. QED
    BY <2>1, <2>2, <2>5 DEF FilesInv
<1>4. CASE RestoreReleases
  <2>1. ui' = "resuming" /\ UNCHANGED <<files, originals, spoiled>>
    BY <1>4 DEF RestoreReleases, dataVars, copyVars
  <2>2. CASE ui = "replacing"
    <3>1. step = Files + 1 /\ Replaced(step - 1)
      BY <1>4, <2>2 DEF RestoreReleases, RollbackPending, FilesInv
    <3>2. \A f \in 1..Files : files[f] = "new"
      BY <3>1 DEF Replaced
    <3>3. files = AllNew
      BY <3>2 DEF TypeOK, AllNew
    <3>4. QED
      BY <2>1, <3>3 DEF FilesInv, AllNew
  <2>3. CASE ui = "rolling back"
    <3>1. step \in 0..Files /\ ~ (step > 0) /\ (spoiled \/ Replaced(step))
      BY <1>4, <2>3 DEF RestoreReleases, RollbackPending, FilesInv
    <3>2. Replaced(step) => \A f \in 1..Files : files[f] = originals[f]
      BY <3>1 DEF Replaced
    <3>3. (\A f \in 1..Files : files[f] = originals[f]) => files = originals
      <4>1. /\ files \in [1..Files -> {"old", "new"}]
            /\ originals \in [1..Files -> {"old", "new"}]
        BY DEF TypeOK
      <4>2. QED
        BY <4>1
    <3>4. QED
      BY <2>1, <3>1, <3>2, <3>3 DEF FilesInv
  <2>4. QED
    BY <1>4, <2>2, <2>3 DEF RestoreReleases, RollbackPending
<1>5. CASE RestoreStages
  BY <1>5 DEF RestoreStages, FilesInv, Replaced
<1>6. CASE RestoreResumes \/ Restart
  BY <1>6 DEF RestoreResumes, Restart, FilesInv
<1>7. CASE UNCHANGED <<ui, step, files, originals, spoiled>>
  BY <1>7 DEF FilesInv, Replaced, AllNew
<1>8. ASSUME NEW on \in BOOLEAN,
             \/ UpdateSettings(on) \/ ConfigureFromSettings \/ Manual
             \/ RestorePauses \/ RestoreAcquires \/ RestoreGivesUp
      PROVE  FilesInv'
  <2>1. /\ ui \in {"idle", "configuring", "backing up", "pausing", "restoring"}
        /\ ui' \in {"idle", "configuring", "backing up", "pausing", "restoring", "resuming"}
        /\ UNCHANGED <<files, originals, spoiled>>
    BY <1>8 DEF UpdateSettings, ConfigureFromSettings, Manual, ManualBegins, ManualEnds,
       RestorePauses, RestoreAcquires, RestoreGivesUp, dataVars, copyVars
  <2>2. QED
    BY <2>1 DEF FilesInv
<1>9. ASSUME (\E j \in Jobs : Job(j)) \/ AcquisitionStarts \/ AcquisitionStops \/ UNCHANGED vars
      PROVE  UNCHANGED <<ui, step, files, originals, spoiled>>
  BY <1>9 DEF Job, JobFires, JobReadsSettings, JobBuilds, JobFinishes, JobThreadEnds,
     AcquisitionStarts, AcquisitionStops, vars, dataVars, copyVars
<1>10. QED
  BY <1>1, <1>2, <1>3, <1>4, <1>5, <1>6, <1>7, <1>8, <1>9 DEF Next, Restore
-----------------------------------------------------------------------------
(* The locks.                                                              *)

LEMMA LockStep == ASSUME TypeOK, LockInv, [Next]_vars PROVE LockInv'
<1> USE Conflicts, Distinct
<1>1. ASSUME NEW j \in Jobs, JobBuilds(j) PROVE LockInv'
  <2>1. ui' = ui
    BY <1>1 DEF JobBuilds
  <2>2. CASE HasConflict("backup")
    <3>1. BackupsActive' = BackupsActive /\ UNCHANGED <<active, overlapped>>
      BY <1>1, <2>2, <2>1 DEF JobBuilds, JobStep, BackupsActive, Building, TypeOK
    <3>2. QED
      BY <2>1, <3>1 DEF LockInv, Replacing
  <2>3. CASE ~ HasConflict("backup")
    <3>1. /\ active' = active \union {"backup"} /\ "restore" \notin active
          /\ overlapped' = (overlapped \/ BackupsActive # {})
          /\ jobs' = [jobs EXCEPT ![j] = "building"]
      BY <1>1, <2>3 DEF JobBuilds, JobStep, Acquire, BackupBegins
    <3>2. BackupsActive' = BackupsActive \union {j}
      BY <2>1, <3>1 DEF BackupsActive, Building, TypeOK
    <3>3. QED
      BY <2>1, <3>1, <3>2 DEF LockInv, Replacing
  <2>4. QED
    BY <2>2, <2>3
<1>2. ASSUME NEW j \in Jobs, JobFinishes(j) PROVE LockInv'
  <2>1. /\ active' = active \ {"backup"} /\ ui' = ui
        /\ overlapped' = (overlapped /\ BackupsActive' # {})
        /\ j \in BackupsActive /\ BackupsActive' = BackupsActive \ {j}
    BY <1>2 DEF JobFinishes, JobStep, Release, BackupEnds, BackupsActive, Building, TypeOK
  <2>2. QED
    BY <2>1 DEF LockInv, Replacing
<1>3. CASE ManualBegins
  <2>1. /\ active' = active \union {"backup"} /\ "restore" \notin active
        /\ ui = "idle" /\ ui' = "backing up"
        /\ overlapped' = (overlapped \/ BackupsActive # {})
        /\ BackupsActive' = BackupsActive \union {"ui"}
    BY <1>3 DEF ManualBegins, Acquire, BackupBegins, BackupsActive, Building, scheduleVars
  <2>2. QED
    BY <2>1 DEF LockInv, Replacing
<1>4. CASE ManualEnds
  <2>1. /\ active' = active \ {"backup"} /\ ui = "backing up" /\ ui' = "idle"
        /\ overlapped' = (overlapped /\ BackupsActive' # {})
        /\ "ui" \in BackupsActive /\ BackupsActive' = BackupsActive \ {"ui"}
    BY <1>4 DEF ManualEnds, Release, BackupEnds, BackupsActive, Building, scheduleVars
  <2>2. QED
    BY <2>1 DEF LockInv, Replacing
<1>5. CASE Restart
  BY <1>5 DEF Restart, LockInv, Replacing, BackupsActive, Building
<1>6. ASSUME BackupsActive' = BackupsActive, overlapped' = overlapped,
             \/ active' = active /\ (Replacing' <=> Replacing)
             \/ active' = active \ {"acquisition"} /\ (Replacing' <=> Replacing)
             \/ /\ active' = active \union {"acquisition"} /\ (Replacing' <=> Replacing)
                /\ "restore" \notin active
             \/ active = {} /\ active' = {"restore"} /\ Replacing'
             \/ active' = active \ {"restore"} /\ ~ Replacing'
      PROVE  LockInv'
  BY <1>6 DEF LockInv
<1>7. CASE RestoreAcquires
  <2>1. BackupsActive' = BackupsActive /\ overlapped' = overlapped
    BY <1>7 DEF RestoreAcquires, BackupsActive, Building, scheduleVars
  <2>2. \/ active' = active /\ (Replacing' <=> Replacing)
        \/ active = {} /\ active' = {"restore"} /\ Replacing'
    BY <1>7 DEF RestoreAcquires, Acquire, Replacing, LockInv
  <2>3. QED
    BY <1>6, <2>1, <2>2
<1>8. CASE RestoreGivesUp \/ RestoreReleases
  <2>1. BackupsActive' = BackupsActive /\ overlapped' = overlapped
    BY <1>8 DEF RestoreGivesUp, RestoreReleases, RollbackPending, BackupsActive, Building,
                scheduleVars
  <2>2. active' = active \ {"restore"} /\ ~ Replacing'
    BY <1>8 DEF RestoreGivesUp, RestoreReleases, Release, Replacing
  <2>3. QED
    BY <1>6, <2>1, <2>2
<1>9. CASE AcquisitionStarts \/ AcquisitionStops
  <2>1. BackupsActive' = BackupsActive /\ overlapped' = overlapped /\ (Replacing' <=> Replacing)
    BY <1>9 DEF AcquisitionStarts, AcquisitionStops, BackupsActive, Building, Replacing,
                scheduleVars
  <2>2. \/ active' = active \ {"acquisition"}
        \/ active' = active \union {"acquisition"} /\ "restore" \notin active
    BY <1>9 DEF AcquisitionStarts, AcquisitionStops, Acquire, Release
  <2>3. QED
    BY <1>6, <2>1, <2>2
<1>10. ASSUME NEW j \in Jobs, JobFires(j) \/ JobReadsSettings(j) \/ JobThreadEnds(j)
       PROVE  LockInv'
  <2>1. BackupsActive' = BackupsActive /\ UNCHANGED <<active, overlapped, ui>>
    BY <1>10 DEF JobFires, JobReadsSettings, JobThreadEnds, JobStep, BackupsActive, Building, TypeOK
  <2>2. QED
    BY <1>6, <2>1 DEF Replacing
<1>11. ASSUME Configure(enabled) PROVE {j \in Jobs : Building(j)}' = {j \in Jobs : Building(j)}
  BY <1>11 DEF Configure, Building, TypeOK
<1>12. CASE ConfigureFromSettings \/ RestoreResumes
  <2>1. BackupsActive' = BackupsActive /\ UNCHANGED <<active, overlapped>>
    BY <1>11, <1>12 DEF ConfigureFromSettings, RestoreResumes, BackupsActive, Building
  <2>2. (Replacing' <=> Replacing)
    BY <1>12 DEF ConfigureFromSettings, RestoreResumes, Replacing
  <2>3. QED
    BY <1>6, <2>1, <2>2
<1>13. ASSUME NEW on \in BOOLEAN,
             \/ UpdateSettings(on) \/ RestorePauses \/ RestoreStages \/ ReplaceFile
             \/ ReplaceFails \/ RollBackFile \/ UNCHANGED vars
       PROVE  LockInv'
  <2>1. UNCHANGED <<active, overlapped, jobs>> /\ (Replacing' <=> Replacing)
    BY <1>13 DEF UpdateSettings, RestorePauses, RestoreStages, ReplaceFile, ReplaceFails,
       RollBackFile, RollbackPending, vars, Replacing, scheduleVars
  <2>2. \/ ui' # "backing up" /\ ui # "backing up"
        \/ ui' = ui
    BY <1>13 DEF UpdateSettings, RestorePauses, RestoreStages, ReplaceFile, ReplaceFails,
       RollBackFile, vars
  <2>3. QED
    BY <1>6, <2>1, <2>2 DEF BackupsActive, Building
<1>14. QED
  BY <1>1, <1>2, <1>3, <1>4, <1>5, <1>7, <1>8, <1>9, <1>10, <1>12, <1>13
     DEF Next, Job, Manual, Restore
-----------------------------------------------------------------------------
(* The schedule.                                                           *)

\* Configure leaves a job exactly when the settings ask for one, a live one.
LEMMA Configured ==
    ASSUME TypeOK, ScheduleInv, Configure(enabled)
    PROVE  /\ registered' # NoJob => registered' \notin cancelled' /\ jobs'[registered'] # "unused"
           /\ \A j \in cancelled' : jobs'[j] # "unused"
           /\ registered' # NoJob <=> enabled
<1>1. PICK j \in Jobs :
        /\ jobs[j] = "unused"
        /\ cancelled' = IF registered = NoJob THEN cancelled ELSE cancelled \union {registered}
        /\ registered' = IF enabled THEN j ELSE NoJob
        /\ jobs' = IF enabled THEN [jobs EXCEPT ![j] = "waiting"] ELSE jobs
  BY DEF Configure
<1>2. j \notin cancelled'
  BY <1>1 DEF ScheduleInv
<1>3. \A k \in cancelled' : k # j /\ k \in Jobs /\ jobs[k] # "unused"
  BY <1>1, <1>2 DEF ScheduleInv, TypeOK
<1>4. \A k \in cancelled' : jobs'[k] # "unused"
  BY <1>1, <1>3 DEF TypeOK
<1>5. enabled => jobs'[j] = "waiting"
  BY <1>1 DEF TypeOK
<1>6. QED
  BY <1>1, <1>2, <1>4, <1>5, Distinct

LEMMA ScheduleStep == ASSUME TypeOK, ScheduleInv, [Next]_vars PROVE ScheduleInv'
<1> USE Distinct
<1>1. CASE ConfigureFromSettings
  BY <1>1, Configured DEF ConfigureFromSettings, ScheduleInv, dataVars
<1>2. CASE RestoreResumes
  <2>1. /\ ui = "resuming" /\ ui' = "idle" /\ ~ paused' /\ enabled' = enabled
    BY <1>2 DEF RestoreResumes, Unpause
  <2>2. CASE Configure(enabled)
    BY <2>1, <2>2, Configured DEF ScheduleInv
  <2>3. CASE unsettled' = TRUE /\ UNCHANGED <<registered, jobs, cancelled>>
    BY <2>1, <2>3 DEF ScheduleInv
  <2>4. QED
    BY <1>2, <2>2, <2>3 DEF RestoreResumes
<1>3. CASE RestorePauses
  BY <1>3 DEF RestorePauses, ScheduleInv
<1>4. CASE Restart
  BY <1>4 DEF Restart, ScheduleInv
<1>5. ASSUME NEW j \in Jobs, Job(j) PROVE ScheduleInv'
  <2>1. /\ UNCHANGED <<ui, paused, unsettled, registered, enabled>>
        /\ \/ cancelled' = cancelled /\ jobs'[j] # "unused" /\ jobs[j] # "unused"
           \/ j \in cancelled /\ cancelled' = cancelled \ {j}
        /\ \A k \in Jobs \ {j} : jobs'[k] = jobs[k]
    BY <1>5 DEF Job, JobFires, JobReadsSettings, JobBuilds, JobFinishes, JobThreadEnds, JobStep,
                dataVars, TypeOK
  <2>2. cancelled \subseteq Jobs /\ registered \in Jobs \union {NoJob}
    BY DEF TypeOK
  <2>3. QED
    BY <2>1, <2>2 DEF ScheduleInv
<1>6. ASSUME NEW on \in BOOLEAN, UpdateSettings(on) PROVE ScheduleInv'
  BY <1>6 DEF UpdateSettings, ScheduleInv, scheduleVars
<1>7. CASE Manual \/ AcquisitionStarts \/ AcquisitionStops \/ UNCHANGED vars
  <2>1. UNCHANGED <<paused, registered, jobs, cancelled, unsettled, enabled>>
    BY <1>7 DEF Manual, ManualBegins, ManualEnds, AcquisitionStarts, AcquisitionStops, vars,
                scheduleVars, dataVars
  <2>2. ui' = ui \/ {ui, ui'} \subseteq {"idle", "backing up"}
    BY <1>7 DEF Manual, ManualBegins, ManualEnds, AcquisitionStarts, AcquisitionStops, vars
  <2>3. QED
    BY <2>1, <2>2 DEF ScheduleInv
<1>8. CASE \/ RestoreAcquires \/ RestoreStages \/ ReplaceFile \/ ReplaceFails \/ RollBackFile
           \/ RestoreGivesUp \/ RestoreReleases
  <2>1. UNCHANGED <<paused, registered, jobs, cancelled, unsettled>>
    BY <1>8 DEF RestoreAcquires, RestoreStages, ReplaceFile, ReplaceFails, RollBackFile,
                RestoreGivesUp, RestoreReleases, scheduleVars
  <2>2. {ui, ui'} \cap {"idle", "backing up", "configuring"} = {}
    BY <1>8 DEF RestoreAcquires, RestoreStages, ReplaceFile, ReplaceFails, RollBackFile,
                RollbackPending, RestoreGivesUp, RestoreReleases
  <2>3. QED
    BY <2>1, <2>2 DEF ScheduleInv
<1>9. QED
  BY <1>1, <1>2, <1>3, <1>4, <1>5, <1>6, <1>7, <1>8 DEF Next, Restore
-----------------------------------------------------------------------------
IInv == TypeOK /\ LockInv /\ ScheduleInv /\ FilesInv

LEMMA InvInit == ASSUME Init PROVE IInv
<1>1. BackupsActive = {}
  BY DEF Init, BackupsActive, Building
<1>2. LockInv
  BY <1>1 DEF Init, LockInv, Replacing
<1>3. ScheduleInv /\ FilesInv
  BY DEF Init, ScheduleInv, FilesInv
<1>4. QED
  BY <1>2, <1>3, TypeInit DEF IInv

\* The strengthened invariant holds through calls, callbacks, faults and restarts.
THEOREM Invariance == Spec => []IInv
<1>1. IInv /\ [Next]_vars => IInv'
  BY TypeStep, LockStep, ScheduleStep, FilesStep DEF IInv
<1>2. QED
  BY InvInit, <1>1, PTL DEF Spec

\* Every variable holds a value of its kind.
THEOREM TypeCorrect == Spec => []TypeOK
<1>1. IInv => TypeOK
  BY DEF IInv
<1>2. QED
  BY <1>1, Invariance, PTL

\* Restore never works beside acquisition, nor beside a backup unless two backups
\* have overlapped.
THEOREM BackupExcludesRestoreAlways == Spec => []BackupExcludesRestore
<1>1. IInv => BackupExcludesRestore
  BY DEF IInv, LockInv, BackupExcludesRestore
<1>2. QED
  BY <1>1, Invariance, PTL

\* No scheduled backup begins while a restore is at work, overlapped or not.
THEOREM NoBackupBeginsInRestoreAlways == Spec => NoBackupBeginsInRestore
<1>1. ASSUME IInv, [Next]_vars, Replacing, Replacing', NEW j \in Jobs, Building(j)'
      PROVE  Building(j)
  <2>1. CASE \E k \in Jobs : JobBuilds(k)
    <3>1. PICK k \in Jobs : JobBuilds(k)
      BY <2>1
    <3>2. HasConflict("backup")
      BY <1>1, Conflicts DEF IInv, LockInv
    <3>3. jobs' = [jobs EXCEPT ![k] = "waiting"]
      BY <3>1, <3>2 DEF JobBuilds, JobStep
    <3>4. QED
      BY <1>1, <3>3 DEF Building, IInv, TypeOK
  <2>2. ASSUME NEW k \in Jobs, NEW to \in JobStates \ {"building"}, jobs' = [jobs EXCEPT ![k] = to]
        PROVE  Building(j)
    BY <1>1, <2>2 DEF Building, IInv, TypeOK
  <2>3. ASSUME NEW k \in Jobs,
               \/ JobFires(k) \/ JobReadsSettings(k) \/ JobFinishes(k) \/ JobThreadEnds(k)
        PROVE  Building(j)
    BY <2>2, <2>3 DEF JobFires, JobReadsSettings, JobFinishes, JobThreadEnds, JobStep, JobStates
  <2>4. ASSUME Configure(enabled) PROVE Building(j)
    BY <1>1, <2>4 DEF Configure, Building, IInv, TypeOK
  <2>5. CASE ConfigureFromSettings \/ RestoreResumes \/ Restart
    BY <1>1, <2>5 DEF ConfigureFromSettings, RestoreResumes, Restart, Replacing
  <2>6. ASSUME UNCHANGED jobs PROVE Building(j)
    BY <1>1, <2>6 DEF Building
  <2>7. ASSUME NEW on \in BOOLEAN,
               \/ UpdateSettings(on) \/ Manual \/ RestorePauses \/ RestoreAcquires \/ RestoreStages
               \/ ReplaceFile \/ ReplaceFails \/ RollBackFile \/ RestoreGivesUp \/ RestoreReleases
               \/ AcquisitionStarts \/ AcquisitionStops \/ UNCHANGED vars
        PROVE  UNCHANGED jobs
    BY <2>7 DEF UpdateSettings, Manual, ManualBegins, ManualEnds, RestorePauses, RestoreAcquires,
       RestoreStages, ReplaceFile, ReplaceFails, RollBackFile, RestoreGivesUp, RestoreReleases,
       AcquisitionStarts, AcquisitionStops, vars, scheduleVars
  <2>8. QED
    BY <1>1, <2>1, <2>3, <2>5, <2>6, <2>7 DEF Next, Job, Restore
<1>2. IInv /\ [Next]_vars =>
        (Replacing /\ Replacing' => \A j \in Jobs : Building(j)' => Building(j))
  BY <1>1
<1>3. QED
  BY <1>2, Invariance, PTL DEF Spec, NoBackupBeginsInRestore

\* Between calls the registered job follows the settings of the database in place.
THEOREM ScheduleFollowsSettingsAlways == Spec => []ScheduleFollowsSettings
<1>1. IInv => ScheduleFollowsSettings
  BY DEF IInv, ScheduleInv, ScheduleFollowsSettings
<1>2. QED
  BY <1>1, Invariance, PTL

\* A restore ends with every file new or every file as it was, for any number of
\* files and whichever of them fails.
THEOREM AllOrNothingAlways == Spec => []AllOrNothing
<1>1. IInv => AllOrNothing
  BY DEF IInv, FilesInv, AllOrNothing
<1>2. QED
  BY <1>1, Invariance, PTL

\* A restore works alone: no lock beside it, and nothing begins.
THEOREM RestoreIsAloneAlways == Spec => RestoreIsAlone
  BY TypeCorrect, BackupExcludesRestoreAlways, NoBackupBeginsInRestoreAlways, PTL DEF RestoreIsAlone
-----------------------------------------------------------------------------
(* The shelf: what every variable holds.                                   *)

Idling    == [step : {"idle"}]
Copying   == [step : {"copying"}, map : Maps]
Asking    == [step : {"ask"}, dir : Dirs, keep : Nat \ {0}]
Builds(T) == [step : {"list", "write", "record", "retain"}, type : T, dir : Dirs, keep : Nat \ {0},
              chosen : Paths, path : Paths, nth : Nat, snap : Databases, listed : Listings]
Purges(T) == [step : {"purge"}, type : T, victims : SUBSET RecordRow]
Staging   == [step : {"stage"}, chosen : Paths]
Puts      == [step : {"replace"}, package : Packages]

GuiTypes == {"manual", "pre_restore"}
GuiWork  == Idling \union Copying \union Builds(GuiTypes) \union Purges(GuiTypes)
            \union Staging \union Puts
SchedulerWork == Idling \union Asking \union Builds({"scheduled"}) \union Purges({"scheduled"})

ShelfTypeOK ==
    /\ active \subseteq Operations
    /\ db \in Databases /\ disk \in [Maps -> {"none", "partial", "whole", "lost"}]
    /\ shelf \subseteq Packages /\ clock \in Nat /\ made \in Nat /\ given \subseteq Paths
    /\ retaken \in BOOLEAN /\ torn \in BOOLEAN
    /\ work = [a \in Actors |-> work[a]]
    /\ work["gui"] \in GuiWork /\ work["scheduler"] \in SchedulerWork

InBuild(a) == work[a].step \in {"list", "write", "record", "retain"}

\* The schema of a package is that of the database in it, and none is in use that the
\* program does not know.
SchemaInv ==
    /\ db.schema <= Current
    /\ \A p \in shelf : p.snap.schema = p.schema
    /\ \A a \in Actors : InBuild(a) => work[a].snap.schema <= Current
    /\ At("gui", "replace") => work["gui"].package.snap.schema <= Current
-----------------------------------------------------------------------------
(* The files of the maps.                                                  *)

Covered(p) == \A m \in p.snap.maps : p.stored[m] = "whole"

\* The rows of the live database, and those of every package that passes the check,
\* have their files; a package being built will have them too.
MapsInv ==
    ~ torn =>
        /\ \A m \in db.maps : disk[m] = "whole"
        /\ \A p \in shelf : ContentMatches(p) => Covered(p)
        /\ \A a \in Actors :
              /\ At(a, "list") => \A m \in work[a].snap.maps : disk[m] = "whole"
              /\ At(a, "write") => \A m \in work[a].snap.maps : work[a].listed[m] = "whole"
        /\ At("gui", "replace") => Covered(work["gui"].package)
-----------------------------------------------------------------------------
(* The records.                                                            *)

\* The records of the databases that are or may come to be the live one, and those
\* about to be purged.
PackageLedgers == {p.snap.rows : p \in shelf}
BuildLedgers == {work[a].snap.rows : a \in {b \in Actors : InBuild(b)}}
RestoreLedgers == {work[a].package.snap.rows : a \in {b \in Actors : At(b, "replace")}}
Ledgers == {db.rows} \union PackageLedgers \union BuildLedgers \union RestoreLedgers
Victims(a) == IF At(a, "purge") THEN work[a].victims ELSE {}
KnownRows == (UNION Ledgers) \union (UNION {Victims(a) : a \in Actors})

\* The records of a database are numbered, and the later record is of the later package.
Ordered(R) ==
    /\ IsFiniteSet(R)
    /\ \A r \in R : r.id <= Cardinality(R)
    /\ \A r, s \in R : r.type = s.type /\ After(s, r) => s.nth > r.nth

Better(r, n) == \E q \in shelf : q.type = r.type /\ q.nth >= n /\ Valid(q, Current)

Handed(path) == path.sec <= clock /\ (path.sec = clock => path \in given)

Unrecorded(a) == work[a].step \in {"list", "write", "record"}

\* Of every record there is its package, or one as new, on the shelf; its name is not
\* that of a package being built.
RowFits(r) ==
    /\ Better(r, r.nth)
    /\ \A p \in shelf : p.at = r.path => p.type = r.type /\ p.nth = r.nth
    /\ r.sec <= clock /\ r.nth <= made /\ Handed(r.path)
    /\ \A a \in Actors : Unrecorded(a) => /\ r.path # work[a].path
                                          /\ r.type = work[a].type => r.nth < work[a].nth

BuildFits(a) ==
    /\ work[a].nth <= made /\ Handed(work[a].path)
    /\ At(a, "record") =>
          \A p \in shelf : p.at = work[a].path => p.type = work[a].type /\ p.nth = work[a].nth
    /\ ~ At(a, "record") => ~ Taken(work[a].path)

RecordsInv ==
    ~ retaken =>
        /\ \A R \in Ledgers : Ordered(R)
        /\ \A r \in KnownRows : RowFits(r)
        /\ \A a \in Actors : \A r \in Victims(a) : Better(r, r.nth + 1)
        /\ \A a \in Actors : Unrecorded(a) => BuildFits(a)
        /\ Unrecorded("gui") /\ Unrecorded("scheduler") =>
              work["gui"].path # work["scheduler"].path

ShelfInv == ShelfTypeOK /\ SchemaInv /\ MapsInv /\ RecordsInv
-----------------------------------------------------------------------------
TypesOf(a) == IF a = "gui" THEN GuiTypes ELSE {"scheduled"}
WorkOf(a)  == IF a = "gui" THEN GuiWork ELSE SchedulerWork

\* What the call of an actor keeps follows from how far it has come.
LEMMA WorkKinds ==
    ASSUME ShelfTypeOK, NEW a \in Actors
    PROVE  /\ work[a] \in WorkOf(a)
           /\ InBuild(a) => work[a] \in Builds(TypesOf(a))
           /\ At(a, "purge") => work[a] \in Purges(TypesOf(a))
           /\ At(a, "stage") => a = "gui" /\ work[a] \in Staging
           /\ At(a, "replace") => a = "gui" /\ work[a] \in Puts
           /\ At(a, "copying") => a = "gui" /\ work[a] \in Copying
           /\ At(a, "ask") => a = "scheduler" /\ work[a] \in Asking
<1>1. CASE a = "gui"
  BY <1>1 DEF ShelfTypeOK, WorkOf, TypesOf, GuiWork, InBuild, At, Idling, Builds, Purges, Staging,
              Puts, Copying
<1>2. CASE a = "scheduler"
  BY <1>2 DEF ShelfTypeOK, WorkOf, TypesOf, SchedulerWork, InBuild, At, Idling, Builds, Purges, Asking
<1>3. QED
  BY <1>1, <1>2 DEF Actors

\* One call goes on.
LEMMA WorkStep ==
    ASSUME ShelfTypeOK, NEW a \in Actors, NEW v \in WorkOf(a), work' = [work EXCEPT ![a] = v]
    PROVE  /\ work' = [b \in Actors |-> work'[b]]
           /\ work'["gui"] \in GuiWork /\ work'["scheduler"] \in SchedulerWork
           /\ work'[a] = v /\ \A b \in Actors \ {a} : work'[b] = work[b]
<1>1. DOMAIN work = Actors
  BY DEF ShelfTypeOK
<1>2. work'[a] = v /\ (\A b \in Actors \ {a} : work'[b] = work[b]) /\ work' = [b \in Actors |-> work'[b]]
  BY <1>1
<1>3. QED
  BY <1>2 DEF ShelfTypeOK, WorkOf, Actors

\* What the beginning of a package changes.
Started(a, type, dir, keep, chosen, path) ==
    /\ clock' = path.sec /\ path.sec >= clock /\ ~ Taken(path)
    /\ path \in given' /\ given' \subseteq given \union {path}
    /\ path.sec = clock => given \subseteq given' /\ retaken' = (path \in given)
    /\ made \in Nat /\ made' = made + 1 /\ retaken = FALSE /\ retaken' \in BOOLEAN
    /\ work' = [work EXCEPT ![a] =
                   [step |-> "list", type |-> type, dir |-> dir, keep |-> keep,
                    chosen |-> chosen, path |-> path, nth |-> made + 1,
                    snap |-> db, listed |-> NothingListed]]

LEMMA PackageStarts ==
    ASSUME ShelfTypeOK, NEW a \in Actors, NEW type \in TypesOf(a), NEW dir \in Dirs,
           NEW keep \in Nat \ {0}, NEW chosen \in Paths, StartPackage(a, type, dir, keep, chosen)
    PROVE  \E path \in Paths : Started(a, type, dir, keep, chosen, path)
<1>1. PICK now \in clock..MaxClock : \E path \in PathsFor(dir, Prefix(type), now) :
         /\ made' = made + 1 /\ ~ retaken /\ clock' = now
         /\ given' = (IF now = clock THEN given ELSE {}) \union {path}
         /\ retaken' = (path \in (IF now = clock THEN given ELSE {}))
         /\ work' = [work EXCEPT ![a] =
                        [step |-> "list", type |-> type, dir |-> dir, keep |-> keep,
                         chosen |-> chosen, path |-> path, nth |-> made + 1,
                         snap |-> db, listed |-> NothingListed]]
  BY Zenon DEF StartPackage
<1>2. PICK path \in PathsFor(dir, Prefix(type), now) :
         /\ made' = made + 1 /\ ~ retaken /\ clock' = now
         /\ given' = (IF now = clock THEN given ELSE {}) \union {path}
         /\ retaken' = (path \in (IF now = clock THEN given ELSE {}))
         /\ work' = [work EXCEPT ![a] =
                        [step |-> "list", type |-> type, dir |-> dir, keep |-> keep,
                         chosen |-> chosen, path |-> path, nth |-> made + 1,
                         snap |-> db, listed |-> NothingListed]]
  BY <1>1
<1>3. now \in Nat /\ now >= clock /\ made \in Nat /\ retaken \in BOOLEAN
  BY ShelfAssumption DEF ShelfTypeOK
<1>4. PICK n \in 0..MaxMade : path = [dir |-> dir, prefix |-> Prefix(type), sec |-> now, n |-> n]
                              /\ ~ Taken(path)
  BY DEF PathsFor
<1>5. path \in Paths /\ path.sec = now
  <2>1. n \in Nat
    BY ShelfAssumption
  <2>2. Prefix(type) \in {"", "backup", "pre_restore", "foreign"}
    BY DEF Prefix
  <2>3. QED
    BY <1>3, <1>4, <2>1, <2>2 DEF Paths
<1>6. /\ path \in given' /\ given' \subseteq given \union {path}
      /\ now = clock => given \subseteq given' /\ retaken' = (path \in given)
      /\ retaken' \in BOOLEAN
  BY <1>2
<1>7. Started(a, type, dir, keep, chosen, path)
  BY <1>2, <1>3, <1>4, <1>5, <1>6 DEF Started
<1>8. QED
  BY <1>5, <1>7

\* What is written is a package.
LEMMA PackageWritten ==
    ASSUME ShelfTypeOK, NEW a \in Actors, NEW parses \in BOOLEAN, At(a, "write")
    PROVE  LET w == work[a]
               p == Written(w, parses)
           IN  /\ p \in Packages /\ p.at = w.path /\ p.type = w.type /\ p.nth = w.nth
               /\ p.parses = parses /\ p.schema = w.snap.schema /\ p.snap = w.snap
               /\ p.listed = w.listed
               /\ \A m \in Maps : p.stored[m] = IF w.listed[m] = "none" THEN "none" ELSE FilesThere[m]
<1> DEFINE w == work[a]
<1>1. w \in Builds(TypesOf(a)) /\ TypesOf(a) \subseteq Types
  BY WorkKinds DEF InBuild, At, TypesOf, GuiTypes, Types
<1>2. FilesThere \in Listings
  BY DEF FilesThere, Listings, ShelfTypeOK
<1>3. Written(w, parses).stored \in Listings
  BY <1>1, <1>2 DEF Written, Builds, Listings
<1>4. Written(w, parses) = [at |-> w.path, type |-> w.type, nth |-> w.nth, parses |-> parses,
                            schema |-> w.snap.schema, snap |-> w.snap, listed |-> w.listed,
                            stored |-> Written(w, parses).stored]
  BY DEF Written
<1>5. w.snap \in Databases /\ w.snap.schema \in Nat
  BY <1>1 DEF Builds, Databases
<1>6. \A m \in Maps : Written(w, parses).stored[m] = IF w.listed[m] = "none" THEN "none" ELSE FilesThere[m]
  BY DEF Written
<1> HIDE DEF w
<1>7. Written(w, parses) \in Packages
  BY <1>1, <1>3, <1>4, <1>5 DEF Builds, Packages
<1>8. QED
  BY <1>4, <1>6, <1>7 DEF w

\* A package handed on to the restore that asked for it, or the end of a call.
LEMMA WorkEnds ==
    ASSUME ShelfTypeOK, NEW a \in Actors, InBuild(a)
    PROVE  /\ [step |-> "idle"] \in WorkOf(a) /\ Idle \in WorkOf(a)
           /\ work[a].type = "pre_restore" =>
                 [step |-> "stage", chosen |-> work[a].chosen] \in WorkOf(a)
           /\ \A s \in {"list", "write", "record", "retain"} :
                 [work[a] EXCEPT !.step = s] \in Builds(TypesOf(a))
           /\ Builds(TypesOf(a)) \subseteq WorkOf(a) /\ Purges(TypesOf(a)) \subseteq WorkOf(a)
<1>1. work[a] \in Builds(TypesOf(a))
  BY WorkKinds
<1>2. work[a].type = "pre_restore" => a = "gui"
  BY <1>1 DEF Builds, TypesOf
<1>3. \A s \in {"list", "write", "record", "retain"} : [work[a] EXCEPT !.step = s] \in Builds(TypesOf(a))
  BY <1>1 DEF Builds
<1>4. work[a].chosen \in Paths
  BY <1>1 DEF Builds
<1>5. QED
  BY <1>2, <1>3, <1>4 DEF WorkOf, TypesOf, GuiWork, SchedulerWork, Idling, Staging, Idle, Actors

\* The rest of the variables, for a step that leaves work a value of its kind.
OthersTyped ==
    /\ active' \subseteq Operations
    /\ db' \in Databases /\ disk' \in [Maps -> {"none", "partial", "whole", "lost"}]
    /\ shelf' \subseteq Packages /\ clock' \in Nat /\ made' \in Nat /\ given' \subseteq Paths
    /\ retaken' \in BOOLEAN /\ torn' \in BOOLEAN

LEMMA BuildType ==
    ASSUME ShelfTypeOK, NEW a \in Actors, BuildPackage(a)
    PROVE  ShelfTypeOK'
<1> USE DEF ShelfTypeOK
<1>1. CASE ListFiles(a)
  <2>1. FilesThere \in Listings
    BY DEF FilesThere, Listings
  <2>2. work[a] \in Builds(TypesOf(a))
    BY <1>1, WorkKinds DEF ListFiles, At, InBuild
  <2>3. [work[a] EXCEPT !.step = "write", !.listed = FilesThere] \in Builds(TypesOf(a))
    BY <2>1, <2>2 DEF Builds
  <2>4. work' = [work EXCEPT ![a] = [work[a] EXCEPT !.step = "write", !.listed = FilesThere]]
    BY <1>1 DEF ListFiles
  <2>5. InBuild(a)
    BY <1>1 DEF ListFiles, At, InBuild
  <2> HIDE DEF ShelfTypeOK
  <2>6. /\ work' = [b \in Actors |-> work'[b]]
        /\ work'["gui"] \in GuiWork /\ work'["scheduler"] \in SchedulerWork
    BY <2>3, <2>4, <2>5, WorkEnds, WorkStep
  <2>7. QED
    BY <1>1, <2>6 DEF ListFiles, ShelfTypeOK
<1>2. ASSUME NEW v \in WorkOf(a), work' = [work EXCEPT ![a] = v], OthersTyped
      PROVE  ShelfTypeOK'
  <2> HIDE DEF ShelfTypeOK
  <2>1. /\ work' = [b \in Actors |-> work'[b]]
        /\ work'["gui"] \in GuiWork /\ work'["scheduler"] \in SchedulerWork
    BY <1>2, WorkStep
  <2>2. QED
    BY <1>2, <2>1 DEF ShelfTypeOK, OthersTyped
<1>3. ASSUME NEW next, NEW v \in WorkOf(a), InBuild(a), PackageEnds(a, next),
             next => work' = [work EXCEPT ![a] = v]
      PROVE  /\ \E u \in WorkOf(a) : work' = [work EXCEPT ![a] = u]
             /\ active' \subseteq Operations
  BY <1>3, WorkEnds DEF PackageEnds, Release
<1>4. CASE WritePackage(a)
  <2>1. InBuild(a) /\ At(a, "write")
    BY <1>4 DEF WritePackage, At, InBuild
  <2>2. [work[a] EXCEPT !.step = "record"] \in WorkOf(a)
    BY <2>1, WorkEnds
  <2>3. shelf' \subseteq Packages
    <3>1. PICK parses \in BOOLEAN : Put(Written(work[a], parses))
      BY <1>4 DEF WritePackage
    <3>2. Written(work[a], parses) \in Packages
      BY <2>1, PackageWritten
    <3>3. QED
      BY <3>1, <3>2 DEF Put
  <2>4. OthersTyped
    BY <1>4, <2>3 DEF WritePackage, OthersTyped
  <2>5. work' = [work EXCEPT ![a] = [work[a] EXCEPT !.step = "record"]]
    BY <1>4 DEF WritePackage, Proceed
  <2>6. QED
    BY <1>2, <2>2, <2>4, <2>5
<1>5. CASE WriteFails(a)
  <2>1. InBuild(a) /\ At(a, "write")
    BY <1>5 DEF WriteFails, At, InBuild
  <2>2. shelf' \subseteq Packages
    <3>1. Written(work[a], FALSE) \in Packages
      BY <2>1, PackageWritten
    <3>2. QED
      BY <1>5, <3>1 DEF WriteFails, Put
  <2>3. PackageEnds(a, EndCall(a)) /\ Idle \in WorkOf(a)
    BY <1>5, <2>1, WorkEnds DEF WriteFails
  <2>4. (\E u \in WorkOf(a) : work' = [work EXCEPT ![a] = u]) /\ active' \subseteq Operations
    BY <1>3, <2>1, <2>3 DEF EndCall
  <2>5. OthersTyped
    BY <1>5, <2>2, <2>4 DEF WriteFails, OthersTyped
  <2>6. QED
    BY <1>2, <2>4, <2>5
<1>6. CASE RecordPackage(a)
  <2>1. InBuild(a) /\ At(a, "record")
    BY <1>6 DEF RecordPackage, At, InBuild
  <2>2. [work[a] EXCEPT !.step = "retain"] \in WorkOf(a) /\ Idle \in WorkOf(a)
    BY <2>1, WorkEnds
  <2>3. PackageEnds(a, Proceed(a, "retain")) \/ PackageEnds(a, EndCall(a))
    BY <1>6 DEF RecordPackage
  <2>4. (\E u \in WorkOf(a) : work' = [work EXCEPT ![a] = u]) /\ active' \subseteq Operations
    BY <1>3, <2>1, <2>2, <2>3 DEF EndCall, Proceed
  <2>5. db' \in Databases
    <3>1. CASE UNCHANGED db
      BY <3>1
    <3>2. CASE ValidAt(work[a].path, db.schema) /\ db' = [db EXCEPT !.rows = Recorded(work[a])]
      <4>1. work[a] \in Builds(TypesOf(a)) /\ TypesOf(a) \subseteq Types
        BY <2>1, WorkKinds DEF TypesOf, GuiTypes, Types
      <4>2. IsFiniteSet(db.rows) /\ Cardinality(db.rows) \in Nat
        BY FS_CardinalityType DEF Databases
      <4>3. Recorded(work[a]) \subseteq RecordRow
        BY <4>1, <4>2 DEF Recorded, RecordRow, Builds, Databases
      <4>4. IsFiniteSet(Recorded(work[a]))
        BY <4>2, FS_AddElement DEF Recorded
      <4>5. QED
        BY <3>2, <4>3, <4>4 DEF Databases
    <3>3. QED
      BY <1>6, <3>1, <3>2 DEF RecordPackage
  <2>6. OthersTyped
    BY <1>6, <2>4, <2>5 DEF RecordPackage, OthersTyped
  <2>7. QED
    BY <1>2, <2>4, <2>6
<1>7. CASE SelectVictims(a)
  <2>1. InBuild(a) /\ work[a] \in Builds(TypesOf(a))
    BY <1>7, WorkKinds DEF SelectVictims, At, InBuild
  <2> DEFINE V == {r \in list_successes_for_retention(work[a].type,
                            IF a = "gui" THEN db.keep ELSE work[a].keep) : r.path.dir = work[a].dir}
  <2>2. V \subseteq RecordRow
    BY DEF list_successes_for_retention, Databases
  <2>3. work' = [work EXCEPT ![a] = [step |-> "purge", type |-> work[a].type, victims |-> V]]
    BY <1>7 DEF SelectVictims
  <2> HIDE DEF V
  <2>4. [step |-> "purge", type |-> work[a].type, victims |-> V] \in WorkOf(a)
    BY <2>1, <2>2, WorkEnds DEF Purges, Builds
  <2>5. OthersTyped
    BY <1>7 DEF SelectVictims, OthersTyped
  <2>6. QED
    BY <1>2, <2>3, <2>4, <2>5
<1>8. CASE Unlink(a)
  <2>1. At(a, "purge") /\ work[a] \in Purges(TypesOf(a))
    BY <1>8, WorkKinds DEF Unlink
  <2>2. PICK r \in work[a].victims : /\ shelf' = {p \in shelf : p.at # r.path}
                                     /\ work' = [work EXCEPT ![a].victims = @ \ {r}]
    BY <1>8 DEF Unlink
  <2>3. work' = [work EXCEPT ![a] = [work[a] EXCEPT !.victims = @ \ {r}]]
    BY <2>2
  <2>4. [work[a] EXCEPT !.victims = @ \ {r}] \in Purges(TypesOf(a))
    BY <2>1 DEF Purges
  <2>5. Purges(TypesOf(a)) \subseteq WorkOf(a)
    BY DEF TypesOf, WorkOf, GuiWork, SchedulerWork, Actors
  <2>6. OthersTyped
    BY <1>8, <2>2 DEF Unlink, OthersTyped
  <2>7. QED
    BY <1>2, <2>3, <2>4, <2>5, <2>6
<1>9. CASE PurgeEnds(a)
  <2>1. Idle \in WorkOf(a)
    BY DEF Idle, WorkOf, GuiWork, SchedulerWork, Idling
  <2>2. OthersTyped
    BY <1>9 DEF PurgeEnds, OthersTyped
  <2>3. QED
    BY <1>2, <1>9, <2>1, <2>2 DEF PurgeEnds, EndCall
<1>10. QED
  BY <1>1, <1>4, <1>5, <1>6, <1>7, <1>8, <1>9 DEF BuildPackage

\* A package is begun by hand, by the schedule or for a restore.
LEMMA StartType ==
    ASSUME ShelfTypeOK, NEW a \in Actors, NEW type \in TypesOf(a), NEW dir \in Dirs,
           NEW keep \in Nat \ {0}, NEW chosen \in Paths, StartPackage(a, type, dir, keep, chosen),
           NEW op \in Operations, Acquire(op), UNCHANGED <<db, disk, shelf, torn>>
    PROVE  ShelfTypeOK'
<1>1. PICK path \in Paths : Started(a, type, dir, keep, chosen, path)
  BY PackageStarts
<1>2. [step |-> "list", type |-> type, dir |-> dir, keep |-> keep, chosen |-> chosen, path |-> path,
       nth |-> made + 1, snap |-> db, listed |-> NothingListed] \in Builds(TypesOf(a))
  BY <1>1 DEF Started, Builds, ShelfTypeOK, NothingListed, Listings
<1>3. Builds(TypesOf(a)) \subseteq WorkOf(a)
  BY DEF TypesOf, WorkOf, GuiWork, SchedulerWork, Actors
<1>4. /\ work' = [b \in Actors |-> work'[b]]
      /\ work'["gui"] \in GuiWork /\ work'["scheduler"] \in SchedulerWork
  BY <1>1, <1>2, <1>3, WorkStep DEF Started
<1>5. clock' \in Nat /\ made' \in Nat /\ given' \subseteq Paths /\ retaken' \in BOOLEAN
  <2>1. clock' = path.sec /\ made \in Nat /\ made' = made + 1 /\ retaken' \in BOOLEAN
        /\ given' \subseteq given \union {path}
    BY <1>1 DEF Started
  <2>2. path.sec \in Nat
    BY DEF Paths
  <2>3. QED
    BY <2>1, <2>2 DEF ShelfTypeOK
<1>6. active' \subseteq Operations
  BY DEF Acquire, ShelfTypeOK
<1>7. QED
  BY <1>4, <1>5, <1>6 DEF ShelfTypeOK

\* The chosen package is on the shelf and passes the check.
LEMMA ChosenPackage ==
    ASSUME NEW path, NEW schema, ValidAt(path, schema)
    PROVE  /\ PackageAt(path) \in shelf /\ PackageAt(path).at = path
           /\ Valid(PackageAt(path), schema)
  BY DEF ValidAt, PackageAt, Taken

LEMMA ShelfTypeStep ==
    ASSUME ShelfTypeOK, [ShelfNext]_shelfVars
    PROVE  ShelfTypeOK'
<1>1. ASSUME NEW a \in Actors, BuildPackage(a) PROVE ShelfTypeOK'
  BY <1>1, BuildType
<1>2. ASSUME NEW a \in Actors, NEW v \in WorkOf(a), work' = [work EXCEPT ![a] = v], OthersTyped
      PROVE  ShelfTypeOK'
  <2>1. /\ work' = [b \in Actors |-> work'[b]]
        /\ work'["gui"] \in GuiWork /\ work'["scheduler"] \in SchedulerWork
    BY <1>2, WorkStep
  <2>2. QED
    BY <1>2, <2>1 DEF ShelfTypeOK, OthersTyped
<1>3. ASSUME UNCHANGED work, OthersTyped PROVE ShelfTypeOK'
  BY <1>3 DEF ShelfTypeOK, OthersTyped
<1>4. /\ Idle \in WorkOf("gui") /\ Idle \in WorkOf("scheduler") /\ "gui" \in Actors
      /\ "scheduler" \in Actors /\ {"backup", "restore"} \subseteq Operations
      /\ "manual" \in TypesOf("gui") /\ "pre_restore" \in TypesOf("gui")
      /\ "scheduled" \in TypesOf("scheduler") /\ 1 \in Nat \ {0}
  BY DEF Idle, WorkOf, GuiWork, SchedulerWork, Idling, Actors, Operations, TypesOf, GuiTypes
<1>5. NoPath \in Paths
  BY ShelfAssumption DEF NoPath, Paths
<1>6. ASSUME NEW keep \in Keeps, NEW dir \in Dirs, SaveSettings(keep, dir) PROVE ShelfTypeOK'
  <2>1. db' \in Databases
    BY <1>6, ShelfAssumption DEF SaveSettings, Upsert, Databases, ShelfTypeOK
  <2>2. QED
    BY <1>3, <1>6, <2>1 DEF SaveSettings, OthersTyped, ShelfTypeOK
<1>7. ASSUME NEW dir \in Dirs, create_manual_backup(dir) PROVE ShelfTypeOK'
  BY <1>4, <1>5, <1>7, StartType DEF create_manual_backup
<1>8. CASE ScheduledReads
  <2>1. [step |-> "ask", dir |-> db.dir, keep |-> db.keep] \in WorkOf("scheduler")
    BY DEF ShelfTypeOK, Databases, WorkOf, SchedulerWork, Asking
  <2>2. OthersTyped
    BY <1>8 DEF ScheduledReads, OthersTyped, ShelfTypeOK
  <2>3. QED
    BY <1>2, <1>4, <1>8, <2>1, <2>2 DEF ScheduledReads
<1>9. CASE ScheduledAsks
  <2>1. CASE HasConflict("backup")
    <3>1. work' = [work EXCEPT !["scheduler"] = Idle]
      BY <1>9, <2>1 DEF ScheduledAsks, EndCall
    <3>2. OthersTyped
      BY <1>9, <2>1 DEF ScheduledAsks, OthersTyped, ShelfTypeOK
    <3>3. QED
      BY <1>2, <1>4, <3>1, <3>2
  <2>2. CASE ~ HasConflict("backup")
    <3>1. work["scheduler"] \in Asking
      BY <1>4, <1>9, WorkKinds DEF ScheduledAsks
    <3>2. QED
      BY <1>4, <1>5, <1>9, <2>2, <3>1, StartType DEF ScheduledAsks, Asking
  <2>3. QED
    BY <2>1, <2>2
<1>10. ASSUME NEW p \in shelf, RestoreBegins(p.at) PROVE ShelfTypeOK'
  <2>1. p.at \in Paths
    BY DEF ShelfTypeOK, Packages
  <2>2. QED
    BY <1>4, <1>10, <2>1, StartType, ShelfAssumption DEF RestoreBegins
<1>11. CASE StagePackage
  <2>1. work["gui"] \in Staging
    BY <1>4, <1>11, WorkKinds DEF StagePackage
  <2>2. CASE ValidAt(work["gui"].chosen, db.schema)
    <3>1. PackageAt(work["gui"].chosen) \in Packages
      BY <2>2, ChosenPackage DEF ShelfTypeOK
    <3>2. [step |-> "replace", package |-> PackageAt(work["gui"].chosen)] \in WorkOf("gui")
      BY <3>1 DEF WorkOf, GuiWork, Puts
    <3>3. work' = [work EXCEPT !["gui"] = [step |-> "replace", package |-> PackageAt(work["gui"].chosen)]]
      BY <1>11, <2>2 DEF StagePackage
    <3>4. OthersTyped
      BY <1>11, <2>2 DEF StagePackage, OthersTyped, ShelfTypeOK
    <3>5. QED
      BY <1>2, <1>4, <3>2, <3>3, <3>4
  <2>3. CASE ~ ValidAt(work["gui"].chosen, db.schema)
    <3>1. OthersTyped
      BY <1>11, <2>3 DEF StagePackage, RestoreEnds, Release, OthersTyped, ShelfTypeOK
    <3>2. QED
      BY <1>2, <1>4, <1>11, <2>3, <3>1 DEF StagePackage, RestoreEnds, EndCall
  <2>4. QED
    BY <2>2, <2>3
<1>12. CASE ReplaceFiles
  <2>1. work["gui"] \in Puts
    BY <1>4, <1>12, WorkKinds DEF ReplaceFiles
  <2>2. work["gui"].package.snap \in Databases /\ work["gui"].package.stored \in Listings
    BY <2>1 DEF Puts, Packages
  <2>3. db' \in Databases
    BY <1>12, <2>2 DEF ReplaceFiles, ShelfTypeOK
  <2>4. disk' \in [Maps -> {"none", "partial", "whole", "lost"}]
    BY <1>12, <2>2 DEF ReplaceFiles, ShelfTypeOK, Listings
  <2>5. torn' \in BOOLEAN /\ active' \subseteq Operations
    BY <1>12 DEF ReplaceFiles, RestoreEnds, Release, ShelfTypeOK
  <2>6. OthersTyped
    BY <1>12, <2>3, <2>4, <2>5 DEF ReplaceFiles, OthersTyped, ShelfTypeOK
  <2>7. QED
    BY <1>2, <1>4, <1>12, <2>6 DEF ReplaceFiles, RestoreEnds, EndCall
<1>13. ASSUME NEW m \in Maps, UploadBegins(m) PROVE ShelfTypeOK'
  <2>1. [step |-> "copying", map |-> m] \in WorkOf("gui")
    BY DEF WorkOf, GuiWork, Copying
  <2>2. OthersTyped
    BY <1>13 DEF UploadBegins, OthersTyped, ShelfTypeOK
  <2>3. QED
    BY <1>2, <1>4, <1>13, <2>1, <2>2 DEF UploadBegins
<1>14. CASE UploadCopies
  <2>1. OthersTyped
    BY <1>14 DEF UploadCopies, OthersTyped, ShelfTypeOK
  <2>2. QED
    BY <1>3, <1>14, <2>1 DEF UploadCopies
<1>15. CASE UploadInserts
  <2>1. work["gui"].map \in Maps
    BY <1>4, <1>15, WorkKinds DEF UploadInserts, Copying
  <2>2. db' \in Databases
    BY <1>15, <2>1 DEF UploadInserts, ShelfTypeOK, Databases
  <2>3. OthersTyped
    BY <1>15, <2>2 DEF UploadInserts, OthersTyped, ShelfTypeOK
  <2>4. QED
    BY <1>2, <1>4, <1>15, <2>3 DEF UploadInserts, EndCall
<1>16. CASE UploadFails
  <2>1. OthersTyped
    BY <1>16 DEF UploadFails, OthersTyped, ShelfTypeOK
  <2>2. QED
    BY <1>2, <1>4, <1>16, <2>1 DEF UploadFails, EndCall
<1>17. ASSUME NEW m \in Maps, DeleteMap(m) PROVE ShelfTypeOK'
  <2>1. db' \in Databases
    BY <1>17 DEF DeleteMap, ShelfTypeOK, Databases
  <2>2. QED
    BY <1>3, <1>17, <2>1 DEF DeleteMap, OthersTyped, ShelfTypeOK
<1>18. CASE ProgramRestarts
  <2>1. db' \in Databases
    BY <1>18, ShelfAssumption DEF ProgramRestarts, ShelfTypeOK, Databases
  <2>2. work' = [b \in Actors |-> work'[b]] /\ work'["gui"] = Idle /\ work'["scheduler"] = Idle
    BY <1>18 DEF ProgramRestarts, Actors
  <2>3. QED
    BY <1>4, <1>18, <2>1, <2>2 DEF ProgramRestarts, ShelfTypeOK, WorkOf
<1>19. CASE FreshInstallation
  <2>1. EmptyDatabase \in Databases
    BY ShelfAssumption, FS_EmptySet DEF EmptyDatabase, Databases
  <2>2. OthersTyped
    BY <1>19, <2>1 DEF FreshInstallation, OthersTyped, ShelfTypeOK
  <2>3. QED
    BY <1>3, <1>19, <2>2 DEF FreshInstallation
<1>20. CASE UNCHANGED shelfVars
  <2>1. OthersTyped
    BY <1>20 DEF shelfVars, OthersTyped, ShelfTypeOK
  <2>2. QED
    BY <1>3, <1>20, <2>1 DEF shelfVars
<1>21. QED
  BY <1>1, <1>6, <1>7, <1>8, <1>9, <1>10, <1>11, <1>12, <1>13, <1>14, <1>15, <1>16, <1>17, <1>18,
     <1>19, <1>20 DEF ShelfNext, RestorePackage, Surroundings
-----------------------------------------------------------------------------
(* The steps of the shelf by what they do to the packages.                 *)

\* A step that leaves the packages and their calls alone, but for calls that end
\* or are not about a package.
Quiet ==
    /\ \A b \in Actors : work'[b] = work[b] \/ work'[b].step \in {"idle", "copying", "ask"}
    /\ UNCHANGED <<shelf, clock, made, given, retaken, torn>>
    /\ db'.rows \in {db.rows, {}} /\ db'.schema \in {db.schema, Current}
    /\ (\A m \in db.maps : disk[m] = "whole") => \A m \in db'.maps : disk'[m] = "whole"
    /\ \A b \in Actors : work'[b].step = "list" => \A m \in Maps : disk[m] = "whole" => disk'[m] = "whole"

Begins ==
    \E a \in Actors, type \in Types, dir \in Dirs, keep \in Nat \ {0}, chosen \in Paths, path \in Paths :
        Started(a, type, dir, keep, chosen, path) /\ UNCHANGED <<db, disk, shelf, torn>>

Stages == StagePackage /\ ValidAt(work["gui"].chosen, db.schema)

Replaces ==
    /\ ReplaceFiles /\ db' = work["gui"].package.snap
    /\ disk' = [m \in Maps |-> IF work["gui"].package.stored[m] = "none" THEN disk[m]
                               ELSE work["gui"].package.stored[m]]
    /\ torn' = (torn \/ At("scheduler", "list"))

LEMMA StartBegins ==
    ASSUME ShelfTypeOK, NEW a \in Actors, NEW type \in TypesOf(a), NEW dir \in Dirs,
           NEW keep \in Nat \ {0}, NEW chosen \in Paths, StartPackage(a, type, dir, keep, chosen),
           UNCHANGED <<db, disk, shelf, torn>>
    PROVE  Begins
<1>1. type \in Types
  BY DEF TypesOf, GuiTypes, Types
<1>2. PICK path \in Paths : Started(a, type, dir, keep, chosen, path)
  BY PackageStarts
<1>3. QED
  BY <1>1, <1>2, Zenon DEF Begins

LEMMA ShelfSteps ==
    ASSUME ShelfTypeOK, [ShelfNext]_shelfVars
    PROVE  (\E a \in Actors : BuildPackage(a)) \/ Begins \/ Stages \/ Replaces \/ Quiet
<1>1. /\ "gui" \in Actors /\ "scheduler" \in Actors /\ 1 \in Nat \ {0} /\ NoPath \in Paths
      /\ "manual" \in TypesOf("gui") /\ "pre_restore" \in TypesOf("gui")
      /\ "scheduled" \in TypesOf("scheduler") /\ Root \in Dirs
  BY ShelfAssumption DEF Actors, TypesOf, GuiTypes, NoPath, Paths
<1>2. ASSUME NEW a \in Actors, NEW v, v.step \in {"idle", "copying", "ask"}, work' = [work EXCEPT ![a] = v]
      PROVE  \A b \in Actors : work'[b] = work[b] \/ work'[b].step \in {"idle", "copying", "ask"}
  BY <1>2 DEF ShelfTypeOK
<1>3. ASSUME NEW a \in Actors, EndCall(a)
      PROVE  \A b \in Actors : work'[b] = work[b] \/ work'[b].step \in {"idle", "copying", "ask"}
  BY <1>2, <1>3 DEF EndCall, Idle
<1>4. ASSUME NEW keep \in Keeps, NEW dir \in Dirs, SaveSettings(keep, dir) PROVE Quiet
  BY <1>4 DEF SaveSettings, Upsert, Quiet, ShelfTypeOK, Databases
<1>5. ASSUME NEW dir \in Dirs, create_manual_backup(dir) PROVE Begins
  BY <1>1, <1>5, StartBegins DEF create_manual_backup
<1>6. CASE ScheduledReads
  BY <1>1, <1>2, <1>6 DEF ScheduledReads, Quiet
<1>7. CASE ScheduledAsks
  <2>1. CASE HasConflict("backup")
    BY <1>1, <1>3, <1>7, <2>1 DEF ScheduledAsks, Quiet
  <2>2. CASE ~ HasConflict("backup")
    <3>1. work["scheduler"] \in Asking
      BY <1>1, <1>7, WorkKinds DEF ScheduledAsks
    <3>2. QED
      BY <1>1, <1>7, <2>2, <3>1, StartBegins DEF ScheduledAsks, Asking
  <2>3. QED
    BY <2>1, <2>2
<1>8. ASSUME NEW p \in shelf, RestoreBegins(p.at) PROVE Begins
  <2>1. p.at \in Paths
    BY DEF ShelfTypeOK, Packages
  <2>2. QED
    BY <1>1, <1>8, <2>1, StartBegins DEF RestoreBegins
<1>9. CASE StagePackage
  <2>1. CASE ~ ValidAt(work["gui"].chosen, db.schema)
    BY <1>1, <1>3, <1>9, <2>1 DEF StagePackage, RestoreEnds, Quiet
  <2>2. QED
    BY <1>9, <2>1 DEF Stages
<1>10. CASE ReplaceFiles
  <2>1. CASE UNCHANGED <<db, disk, torn>>
    BY <1>1, <1>3, <1>10, <2>1 DEF ReplaceFiles, RestoreEnds, Quiet
  <2>2. QED
    BY <1>10, <2>1 DEF ReplaceFiles, Replaces
<1>11. ASSUME NEW m \in Maps, UploadBegins(m) PROVE Quiet
  <2>1. \A k \in Maps : disk[k] = "whole" => disk'[k] = "whole"
    BY <1>11 DEF UploadBegins, ShelfTypeOK
  <2>2. \A b \in Actors : work'[b] = work[b] \/ work'[b].step \in {"idle", "copying", "ask"}
    BY <1>1, <1>2, <1>11 DEF UploadBegins
  <2>3. db.maps \subseteq Maps
    BY DEF ShelfTypeOK, Databases
  <2>4. QED
    BY <1>11, <2>1, <2>2, <2>3 DEF UploadBegins, Quiet
<1>12. CASE UploadCopies
  <2>1. \A k \in Maps : disk[k] = "whole" => disk'[k] = "whole"
    BY <1>12 DEF UploadCopies, ShelfTypeOK
  <2>2. db.maps \subseteq Maps
    BY DEF ShelfTypeOK, Databases
  <2>3. QED
    BY <1>12, <2>1, <2>2 DEF UploadCopies, Quiet
<1>13. CASE UploadInserts
  <2>1. db'.maps = db.maps \union {work["gui"].map} /\ db'.rows = db.rows /\ db'.schema = db.schema
    BY <1>13 DEF UploadInserts, ShelfTypeOK, Databases
  <2>2. QED
    BY <1>1, <1>3, <1>13, <2>1 DEF UploadInserts, Quiet
<1>14. CASE UploadFails
  BY <1>1, <1>3, <1>14 DEF UploadFails, Quiet
<1>15. ASSUME NEW m \in Maps, DeleteMap(m) PROVE Quiet
  <2>1. db'.maps \subseteq db.maps /\ db'.rows = db.rows /\ db'.schema = db.schema
    BY <1>15 DEF DeleteMap, ShelfTypeOK, Databases
  <2>2. QED
    BY <1>15, <2>1 DEF DeleteMap, Quiet
<1>16. CASE ProgramRestarts
  <2>1. db'.maps = db.maps /\ db'.rows = db.rows /\ db'.schema = Current
    BY <1>16 DEF ProgramRestarts, ShelfTypeOK, Databases
  <2>2. QED
    BY <1>16, <2>1 DEF ProgramRestarts, Idle, Quiet
<1>17. CASE FreshInstallation
  <2>1. \A b \in Actors : work'[b] = work[b] /\ work'[b].step = "idle"
    BY <1>17 DEF FreshInstallation, Idle
  <2>2. db'.maps = {} /\ db'.rows = {} /\ db'.schema = Current
    BY <1>17 DEF FreshInstallation, EmptyDatabase
  <2>3. QED
    BY <1>17, <2>1, <2>2 DEF FreshInstallation, Quiet
<1>18. CASE UNCHANGED shelfVars
  BY <1>18 DEF shelfVars, Quiet
<1>19. QED
  BY <1>4, <1>5, <1>6, <1>7, <1>8, <1>9, <1>10, <1>11, <1>12, <1>13, <1>14, <1>15, <1>16, <1>17, <1>18
  DEF ShelfNext, RestorePackage, Surroundings

\* What a call that builds a package keeps, and what it puts on the shelf.
LEMMA BuildCarries ==
    ASSUME ShelfTypeOK, NEW a \in Actors, BuildPackage(a)
    PROVE  /\ \A b \in Actors \ {a} : work'[b] = work[b]
           /\ work'[a].step \in {"list", "write", "record", "retain"} =>
                 /\ InBuild(a) /\ work'[a].snap = work[a].snap /\ work'[a].path = work[a].path
                 /\ work'[a].type = work[a].type /\ work'[a].nth = work[a].nth
           /\ work'[a].step \notin {"list", "replace"}
           /\ work'[a].step = "write" => At(a, "list") /\ work'[a].listed = FilesThere
           /\ work'[a].step = "record" => At(a, "write")
           /\ \A p \in shelf' : \/ p \in shelf
                                \/ At(a, "write") /\ \E parses \in BOOLEAN : p = Written(work[a], parses)
           /\ db'.schema = db.schema /\ db'.maps = db.maps
           /\ UNCHANGED <<disk, clock, made, given, retaken, torn>>
<1>1. DOMAIN work = Actors
  BY DEF ShelfTypeOK
<1>2. InBuild(a) => work[a] \in Builds(TypesOf(a))
  BY WorkKinds
<1>3. At(a, "purge") => work[a] \in Purges(TypesOf(a))
  BY WorkKinds
<1>4. CASE ListFiles(a)
  BY <1>1, <1>2, <1>4 DEF ListFiles, At, InBuild, Builds
<1>5. CASE WritePackage(a)
  <2>1. \A p \in shelf' : p \in shelf \/ \E parses \in BOOLEAN : p = Written(work[a], parses)
    BY <1>5 DEF WritePackage, Put
  <2>2. QED
    BY <1>1, <1>2, <1>5, <2>1 DEF WritePackage, Proceed, At, InBuild, Builds
<1>6. CASE WriteFails(a)
  <2>1. \A p \in shelf' : p \in shelf \/ \E parses \in BOOLEAN : p = Written(work[a], parses)
    BY <1>6 DEF WriteFails, Put
  <2>2. work'[a].step \in {"idle", "stage"} /\ \A b \in Actors \ {a} : work'[b] = work[b]
    BY <1>1, <1>6 DEF WriteFails, PackageEnds, EndCall, Idle
  <2>3. QED
    BY <1>6, <2>1, <2>2 DEF WriteFails
<1>7. CASE RecordPackage(a)
  <2>1. /\ \A b \in Actors \ {a} : work'[b] = work[b]
        /\ \/ work'[a].step \in {"idle", "stage"}
           \/ work' = [work EXCEPT ![a].step = "retain"]
    BY <1>1, <1>7 DEF RecordPackage, PackageEnds, EndCall, Proceed, Idle
  <2>2. db'.schema = db.schema /\ db'.maps = db.maps
    BY <1>7 DEF RecordPackage, ShelfTypeOK, Databases
  <2>3. CASE work' = [work EXCEPT ![a].step = "retain"]
    BY <1>1, <1>2, <1>7, <2>2, <2>3 DEF RecordPackage, At, InBuild, Builds
  <2>4. QED
    BY <1>7, <2>1, <2>2, <2>3 DEF RecordPackage
<1>8. CASE SelectVictims(a)
  BY <1>1, <1>8 DEF SelectVictims
<1>9. CASE Unlink(a)
  <2>1. PICK r \in work[a].victims : /\ shelf' = {p \in shelf : p.at # r.path}
                                     /\ work' = [work EXCEPT ![a].victims = @ \ {r}]
    BY <1>9 DEF Unlink
  <2>2. work'[a].step = "purge" /\ \A b \in Actors \ {a} : work'[b] = work[b]
    BY <1>1, <1>3, <1>9, <2>1 DEF Unlink, At, Purges
  <2>3. QED
    BY <1>9, <2>1, <2>2 DEF Unlink
<1>10. CASE PurgeEnds(a)
  BY <1>1, <1>10 DEF PurgeEnds, EndCall, Idle
<1>11. QED
  BY <1>4, <1>5, <1>6, <1>7, <1>8, <1>9, <1>10 DEF BuildPackage

\* What the beginning of a package does to the calls.
LEMMA BeginsCarries ==
    ASSUME ShelfTypeOK, NEW a \in Actors, NEW type, NEW dir, NEW keep, NEW chosen, NEW path,
           Started(a, type, dir, keep, chosen, path)
    PROVE  /\ work'[a].step = "list" /\ work'[a].snap = db /\ work'[a].path = path
           /\ work'[a].type = type /\ work'[a].nth = made + 1
           /\ \A b \in Actors \ {a} : work'[b] = work[b]
  BY DEF Started, ShelfTypeOK

\* What the other steps of a restore do to the calls.
LEMMA RestoreCarries ==
    ASSUME ShelfTypeOK, Stages \/ Replaces
    PROVE  /\ work'["scheduler"] = work["scheduler"]
           /\ Stages => /\ work'["gui"].step = "replace"
                        /\ work'["gui"].package = PackageAt(work["gui"].chosen)
                        /\ UNCHANGED <<db, disk, shelf, clock, made, given, retaken, torn>>
           /\ Replaces => /\ work'["gui"].step = "idle" /\ At("gui", "replace")
                          /\ UNCHANGED <<shelf, clock, made, given, retaken>>
<1>1. DOMAIN work = {"gui", "scheduler"}
  BY DEF ShelfTypeOK, Actors
<1>2. CASE Stages
  BY <1>1, <1>2 DEF Stages, StagePackage, Replaces, ReplaceFiles, At
<1>3. CASE Replaces
  BY <1>1, <1>3 DEF Replaces, ReplaceFiles, RestoreEnds, EndCall, Idle, Stages, StagePackage, At
<1>4. QED
  BY <1>2, <1>3

LEMMA SchemaStep ==
    ASSUME ShelfTypeOK, SchemaInv, [ShelfNext]_shelfVars
    PROVE  SchemaInv'
<1>1. ASSUME NEW a \in Actors, BuildPackage(a) PROVE SchemaInv'
  <2>1. \A p \in shelf' : p.snap.schema = p.schema
    <3>1. ASSUME At(a, "write"), NEW parses \in BOOLEAN
          PROVE  Written(work[a], parses).snap.schema = Written(work[a], parses).schema
      BY DEF Written
    <3>2. QED
      BY <1>1, <3>1, BuildCarries DEF SchemaInv
  <2>2. \A b \in Actors : InBuild(b)' => work'[b].snap.schema <= Current
    BY <1>1, BuildCarries DEF SchemaInv, InBuild
  <2>3. At("gui", "replace")' => work'["gui"].package.snap.schema <= Current
    BY <1>1, BuildCarries DEF SchemaInv, At, Actors
  <2>4. QED
    BY <1>1, <2>1, <2>2, <2>3, BuildCarries DEF SchemaInv
<1>2. CASE Begins
  <2>1. PICK a \in Actors, type \in Types, dir \in Dirs, keep \in Nat \ {0}, chosen \in Paths, path \in Paths :
          Started(a, type, dir, keep, chosen, path) /\ UNCHANGED <<db, disk, shelf, torn>>
    BY <1>2, Zenon DEF Begins
  <2>2. /\ work'[a].step = "list" /\ work'[a].snap = db
        /\ \A b \in Actors \ {a} : work'[b] = work[b]
    BY <2>1, BeginsCarries
  <2>3. QED
    BY <2>1, <2>2 DEF SchemaInv, InBuild, At, Actors
<1>3. CASE Stages
  <2>1. PackageAt(work["gui"].chosen) \in shelf /\ Valid(PackageAt(work["gui"].chosen), db.schema)
    BY <1>3, ChosenPackage DEF Stages
  <2>2. PackageAt(work["gui"].chosen).snap.schema <= Current
    BY <2>1, ShelfAssumption DEF SchemaInv, Valid, Compatible, ShelfTypeOK, Packages, Databases
  <2>3. QED
    BY <1>3, <2>2, RestoreCarries DEF SchemaInv, InBuild, At, Actors
<1>4. CASE Replaces
  <2>1. db'.schema <= Current
    BY <1>4, RestoreCarries DEF Replaces, SchemaInv
  <2>2. QED
    BY <1>4, <2>1, RestoreCarries DEF SchemaInv, InBuild, At, Actors
<1>5. CASE Quiet
  <2>1. db'.schema <= Current
    BY <1>5, ShelfAssumption DEF Quiet, SchemaInv
  <2>2. QED
    BY <1>5, <2>1 DEF Quiet, SchemaInv, InBuild, At, Actors
<1>6. QED
  BY <1>1, <1>2, <1>3, <1>4, <1>5, ShelfSteps

LEMMA MapsStep ==
    ASSUME ShelfTypeOK, MapsInv, [ShelfNext]_shelfVars
    PROVE  MapsInv'
<1> SUFFICES ASSUME ~ torn' PROVE
        /\ \A m \in db'.maps : disk'[m] = "whole"
        /\ \A p \in shelf' : ContentMatches(p) => Covered(p)
        /\ \A a \in Actors :
              /\ work'[a].step = "list" => \A m \in work'[a].snap.maps : disk'[m] = "whole"
              /\ work'[a].step = "write" => \A m \in work'[a].snap.maps : work'[a].listed[m] = "whole"
        /\ work'["gui"].step = "replace" => Covered(work'["gui"].package)
  BY DEF MapsInv, At, ContentMatches, Covered
<1>1. ASSUME NEW a \in Actors, BuildPackage(a) PROVE
        /\ \A m \in db'.maps : disk'[m] = "whole"
        /\ \A p \in shelf' : ContentMatches(p) => Covered(p)
        /\ \A b \in Actors :
              /\ work'[b].step = "list" => \A m \in work'[b].snap.maps : disk'[m] = "whole"
              /\ work'[b].step = "write" => \A m \in work'[b].snap.maps : work'[b].listed[m] = "whole"
        /\ work'["gui"].step = "replace" => Covered(work'["gui"].package)
  <2>1. ~ torn
    BY <1>1, BuildCarries
  <2>2. InBuild(a) => work[a].snap.maps \subseteq Maps
    BY WorkKinds DEF Builds, Databases
  <2>3. \A p \in shelf' : ContentMatches(p) => Covered(p)
    <3>1. ASSUME At(a, "write"), NEW parses \in BOOLEAN, ContentMatches(Written(work[a], parses))
          PROVE  Covered(Written(work[a], parses))
      <4>1. work[a].snap.maps \subseteq Maps
        BY <2>2, <3>1 DEF InBuild, At
      <4>2. Written(work[a], parses).stored = work[a].listed /\ Written(work[a], parses).snap = work[a].snap
        BY <3>1 DEF ContentMatches, Written
      <4>3. QED
        BY <2>1, <3>1, <4>1, <4>2 DEF MapsInv, Covered
    <3>2. QED
      BY <1>1, <2>1, <3>1, BuildCarries DEF MapsInv
  <2>4. work'[a].step = "write" => \A m \in work'[a].snap.maps : work'[a].listed[m] = "whole"
    <3>1. HAVE work'[a].step = "write"
    <3>2. At(a, "list") /\ work'[a].listed = FilesThere /\ work'[a].snap = work[a].snap
      BY <1>1, <3>1, BuildCarries
    <3>3. work[a].snap.maps \subseteq Maps
      BY <2>2, <3>2 DEF InBuild, At
    <3>4. QED
      BY <2>1, <3>2, <3>3 DEF MapsInv, FilesThere
  <2>5. QED
    BY <1>1, <2>1, <2>3, <2>4, BuildCarries DEF MapsInv, At, Actors
<1>2. CASE Begins
  <2>1. PICK a \in Actors, type \in Types, dir \in Dirs, keep \in Nat \ {0}, chosen \in Paths, path \in Paths :
          Started(a, type, dir, keep, chosen, path) /\ UNCHANGED <<db, disk, shelf, torn>>
    BY <1>2, Zenon DEF Begins
  <2>2. /\ work'[a].step = "list" /\ work'[a].snap = db
        /\ \A b \in Actors \ {a} : work'[b] = work[b]
    BY <2>1, BeginsCarries
  <2>3. QED
    BY <2>1, <2>2 DEF MapsInv, At, Actors
<1>3. CASE Stages
  <2>1. PackageAt(work["gui"].chosen) \in shelf /\ Valid(PackageAt(work["gui"].chosen), db.schema)
    BY <1>3, ChosenPackage DEF Stages
  <2>2. ~ torn
    BY <1>3, RestoreCarries
  <2>3. Covered(PackageAt(work["gui"].chosen))
    BY <2>1, <2>2 DEF MapsInv, Valid
  <2>4. QED
    BY <1>3, <2>2, <2>3, RestoreCarries DEF MapsInv, At, Actors
<1>4. CASE Replaces
  <2>1. ~ torn /\ ~ At("scheduler", "list")
    BY <1>4 DEF Replaces
  <2>2. At("gui", "replace") /\ work["gui"] \in Puts
    BY <1>4, RestoreCarries, WorkKinds DEF Actors
  <2>3. work["gui"].package.snap.maps \subseteq Maps
    BY <2>2 DEF Puts, Packages, Databases
  <2>4. \A m \in db'.maps : disk'[m] = "whole"
    BY <1>4, <2>1, <2>2, <2>3 DEF Replaces, MapsInv, Covered
  <2>5. QED
    BY <1>4, <2>1, <2>4, RestoreCarries DEF MapsInv, At, Actors
<1>5. CASE Quiet
  <2>1. \A b \in Actors : work'[b].step = "list" => work'[b] = work[b] /\ work[b].snap.maps \subseteq Maps
    BY <1>5, WorkKinds DEF Quiet, InBuild, Builds, Databases
  <2>2. QED
    BY <1>5, <2>1 DEF Quiet, MapsInv, At, Actors
<1>6. QED
  BY <1>1, <1>2, <1>3, <1>4, <1>5, ShelfSteps
-----------------------------------------------------------------------------
(* What a step does to the records.                                        *)

LEMMA LedgerKinds ==
    ASSUME NEW R
    PROVE  R \in Ledgers <=> \/ R = db.rows
                             \/ \E p \in shelf : R = p.snap.rows
                             \/ \E b \in Actors : InBuild(b) /\ R = work[b].snap.rows
                             \/ \E b \in Actors : At(b, "replace") /\ R = work[b].package.snap.rows
<1>1. R \in PackageLedgers <=> \E p \in shelf : R = p.snap.rows
  BY DEF PackageLedgers
<1>2. R \in BuildLedgers <=> \E b \in Actors : InBuild(b) /\ R = work[b].snap.rows
  BY DEF BuildLedgers
<1>3. R \in RestoreLedgers <=> \E b \in Actors : At(b, "replace") /\ R = work[b].package.snap.rows
  BY DEF RestoreLedgers
<1>4. QED
  BY <1>1, <1>2, <1>3 DEF Ledgers

LEMMA KnownKinds ==
    ASSUME NEW r
    PROVE  r \in KnownRows <=> \/ \E R \in Ledgers : r \in R
                               \/ \E b \in Actors : r \in Victims(b)
<1>1. r \in UNION Ledgers <=> \E R \in Ledgers : r \in R
  OBVIOUS
<1>2. r \in UNION {Victims(b) : b \in Actors} <=> \E b \in Actors : r \in Victims(b)
  OBVIOUS
<1>3. QED
  BY <1>1, <1>2 DEF KnownRows

\* The record that is added.
NewRow(a) == [type |-> work[a].type, path |-> work[a].path, sec |-> clock,
              id |-> Cardinality(db.rows) + 1, nth |-> work[a].nth]
Adds(a) == /\ RecordPackage(a) /\ ValidAt(work[a].path, db.schema)
           /\ db' = [db EXCEPT !.rows = Recorded(work[a])]

LEMMA LedgersStep ==
    ASSUME ShelfTypeOK, [ShelfNext]_shelfVars, NEW R \in Ledgers'
    PROVE  \/ R \in Ledgers \/ R = {}
           \/ \E a \in Actors : Adds(a) /\ R = db.rows \union {NewRow(a)}
<1>1. \/ R = db'.rows
      \/ \E p \in shelf' : R = p.snap.rows
      \/ \E b \in Actors : work'[b].step \in {"list", "write", "record", "retain"} /\ R = work'[b].snap.rows
      \/ \E b \in Actors : work'[b].step = "replace" /\ R = work'[b].package.snap.rows
  <2>1. \/ R = db'.rows \/ R \in PackageLedgers' \/ R \in BuildLedgers' \/ R \in RestoreLedgers'
    BY DEF Ledgers
  <2>2. R \in PackageLedgers' => \E p \in shelf' : R = p.snap.rows
    BY DEF PackageLedgers
  <2>3. R \in BuildLedgers' =>
          \E b \in Actors : work'[b].step \in {"list", "write", "record", "retain"} /\ R = work'[b].snap.rows
    BY DEF BuildLedgers, InBuild
  <2>4. R \in RestoreLedgers' =>
          \E b \in Actors : work'[b].step = "replace" /\ R = work'[b].package.snap.rows
    BY DEF RestoreLedgers, At
  <2>5. QED
    BY <2>1, <2>2, <2>3, <2>4
<1>2. ASSUME NEW a \in Actors, BuildPackage(a) PROVE
        \/ R \in Ledgers
        \/ Adds(a) /\ R = db.rows \union {NewRow(a)}
  <2>1. CASE R = db'.rows
    <3>1. CASE db' = db
      BY <2>1, <3>1, LedgerKinds
    <3>2. CASE db' # db
      <4>1. RecordPackage(a)
        BY <1>2, <3>2 DEF BuildPackage, ListFiles, WritePackage, WriteFails, SelectVictims, Unlink, PurgeEnds
      <4>2. ValidAt(work[a].path, db.schema) /\ db' = [db EXCEPT !.rows = Recorded(work[a])]
        BY <3>2, <4>1 DEF RecordPackage
      <4>3. db'.rows = Recorded(work[a])
        BY <4>2 DEF ShelfTypeOK, Databases
      <4>4. QED
        BY <2>1, <4>1, <4>2, <4>3 DEF Adds, NewRow, Recorded
    <3>3. QED
      BY <3>1, <3>2
  <2>2. CASE \E p \in shelf' : R = p.snap.rows
    <3>1. PICK p \in shelf' : R = p.snap.rows
      BY <2>2
    <3>2. CASE p \in shelf
      BY <3>1, <3>2, LedgerKinds
    <3>3. CASE p \notin shelf
      <4>1. At(a, "write") /\ p.snap = work[a].snap
        BY <1>2, <3>3, BuildCarries DEF Written
      <4>2. QED
        BY <3>1, <4>1, LedgerKinds DEF At, InBuild
    <3>4. QED
      BY <3>2, <3>3
  <2>3. CASE \E b \in Actors : work'[b].step \in {"list", "write", "record", "retain"} /\ R = work'[b].snap.rows
    <3>1. PICK b \in Actors : work'[b].step \in {"list", "write", "record", "retain"} /\ R = work'[b].snap.rows
      BY <2>3
    <3>2. InBuild(b) /\ R = work[b].snap.rows
      BY <1>2, <3>1, BuildCarries DEF InBuild
    <3>3. QED
      BY <3>2, LedgerKinds
  <2>4. CASE \E b \in Actors : work'[b].step = "replace" /\ R = work'[b].package.snap.rows
    <3>1. PICK b \in Actors : work'[b].step = "replace" /\ R = work'[b].package.snap.rows
      BY <2>4
    <3>2. At(b, "replace") /\ R = work[b].package.snap.rows
      BY <1>2, <3>1, BuildCarries DEF At
    <3>3. QED
      BY <3>2, LedgerKinds
  <2>5. QED
    BY <1>1, <2>1, <2>2, <2>3, <2>4
<1>3. CASE Begins
  <2>1. PICK a \in Actors, type \in Types, dir \in Dirs, keep \in Nat \ {0}, chosen \in Paths, path \in Paths :
          Started(a, type, dir, keep, chosen, path) /\ UNCHANGED <<db, disk, shelf, torn>>
    BY <1>3, Zenon DEF Begins
  <2>2. /\ work'[a].step = "list" /\ work'[a].snap = db
        /\ \A b \in Actors \ {a} : work'[b] = work[b]
    BY <2>1, BeginsCarries
  <2>3. QED
    BY <1>1, <2>1, <2>2, LedgerKinds DEF InBuild, At
<1>4. CASE Stages
  <2>1. PackageAt(work["gui"].chosen) \in shelf
    BY <1>4, ChosenPackage DEF Stages
  <2>2. QED
    BY <1>1, <1>4, <2>1, RestoreCarries, LedgerKinds DEF InBuild, At, Actors
<1>5. CASE Replaces
  <2>1. db'.rows = work["gui"].package.snap.rows
    BY <1>5 DEF Replaces
  <2>2. QED
    BY <1>1, <1>5, <2>1, RestoreCarries, LedgerKinds DEF InBuild, At, Actors
<1>6. CASE Quiet
  BY <1>1, <1>6, LedgerKinds DEF Quiet, InBuild, At
<1>7. QED
  BY <1>2, <1>3, <1>4, <1>5, <1>6, ShelfSteps

\* The records about to be purged are of the database, or were already.
LEMMA VictimsStep ==
    ASSUME ShelfTypeOK, [ShelfNext]_shelfVars, NEW b \in Actors
    PROVE  /\ Victims(b)' \subseteq Victims(b) \union db.rows
           /\ ~ SelectVictims(b) => Victims(b)' \subseteq Victims(b)
<1>1. Victims(b)' = IF work'[b].step = "purge" THEN work'[b].victims ELSE {}
  BY DEF Victims, At
<1>2. work'[b] = work[b] => Victims(b)' \subseteq Victims(b)
  BY <1>1 DEF Victims, At
<1>3. ASSUME NEW a \in Actors, BuildPackage(a), work'[b].step = "purge", work'[b] # work[b]
      PROVE  SelectVictims(b) \/ Unlink(b)
  <2>1. a = b
    BY <1>3, BuildCarries
  <2>2. work' = [c \in Actors |-> work'[c]] /\ DOMAIN work = Actors
    BY ShelfTypeStep DEF ShelfTypeOK
  <2>3. ~ ListFiles(b) /\ ~ WritePackage(b)
    <3>1. InBuild(b) => work[b] \in Builds(TypesOf(b))
      BY WorkKinds
    <3>2. ~ ListFiles(b)
      BY <1>3, <2>2, <3>1 DEF ListFiles, InBuild, At, Builds
    <3>3. ~ WritePackage(b)
      BY <1>3, <2>2, <3>1 DEF WritePackage, Proceed, InBuild, At, Builds
    <3>4. QED
      BY <3>2, <3>3
  <2>4. ~ WriteFails(b) /\ ~ PurgeEnds(b)
    <3>1. ~ PurgeEnds(b)
      BY <1>3, <2>2 DEF PurgeEnds, EndCall, Idle
    <3>2. ASSUME WriteFails(b) PROVE FALSE
      <4>1. \/ work' = [work EXCEPT ![b] = [step |-> "stage", chosen |-> work[b].chosen]]
            \/ work' = [work EXCEPT ![b] = [step |-> "idle"]]
        BY <3>2 DEF WriteFails, PackageEnds, EndCall, Idle
      <4>2. work'[b].step \in {"stage", "idle"}
        BY <2>2, <4>1
      <4>3. QED
        BY <1>3, <4>2
    <3>3. QED
      BY <3>1, <3>2
  <2>5. ~ RecordPackage(b)
    <3>1. InBuild(b) => work[b] \in Builds(TypesOf(b))
      BY WorkKinds
    <3>2. QED
      BY <1>3, <2>2, <3>1 DEF RecordPackage, PackageEnds, EndCall, Proceed, Idle, InBuild, At, Builds
  <2>6. QED
    BY <1>3, <2>1, <2>3, <2>4, <2>5 DEF BuildPackage
<1>4. CASE SelectVictims(b)
  <2>1. work'[b].victims \subseteq db.rows
    BY <1>4 DEF SelectVictims, list_successes_for_retention, ShelfTypeOK
  <2>2. QED
    BY <1>1, <1>4, <2>1
<1>5. CASE Unlink(b)
  <2>1. work'[b].victims \subseteq work[b].victims /\ At(b, "purge")
    <3>1. work[b] \in Purges(TypesOf(b))
      BY <1>5, WorkKinds DEF Unlink
    <3>2. QED
      BY <1>5, <3>1 DEF Unlink, ShelfTypeOK, Purges
  <2>2. QED
    BY <1>1, <2>1 DEF Victims
<1>6. ASSUME work'[b].step = "purge", work'[b] # work[b] PROVE SelectVictims(b) \/ Unlink(b)
  <2>1. CASE Begins
    <3>1. PICK a \in Actors, type \in Types, dir \in Dirs, keep \in Nat \ {0}, chosen \in Paths, path \in Paths :
            Started(a, type, dir, keep, chosen, path) /\ UNCHANGED <<db, disk, shelf, torn>>
      BY <2>1, Zenon DEF Begins
    <3>2. work'[a].step = "list" /\ \A c \in Actors \ {a} : work'[c] = work[c]
      BY <3>1, BeginsCarries
    <3>3. QED
      BY <1>6, <3>2
  <2>2. CASE Stages \/ Replaces
    BY <1>6, <2>2, RestoreCarries DEF Actors
  <2>3. CASE Quiet
    BY <1>6, <2>3 DEF Quiet
  <2>4. QED
    BY <1>3, <1>6, <2>1, <2>2, <2>3, ShelfSteps
<1>7. QED
  BY <1>1, <1>2, <1>4, <1>5, <1>6

LEMMA KnownStep ==
    ASSUME ShelfTypeOK, [ShelfNext]_shelfVars, NEW r \in KnownRows'
    PROVE  r \in KnownRows \/ \E a \in Actors : Adds(a) /\ r = NewRow(a)
<1>1. (\E R \in Ledgers' : r \in R) \/ \E b \in Actors : r \in Victims(b)'
  <2>1. r \in UNION Ledgers' \/ r \in UNION {Victims(b)' : b \in Actors}
    BY DEF KnownRows
  <2>2. QED
    BY <2>1
<1>2. db.rows \in Ledgers
  BY LedgerKinds
<1>3. ASSUME NEW b \in Actors, r \in Victims(b)' PROVE r \in KnownRows
  BY <1>2, <1>3, VictimsStep, KnownKinds
<1>4. ASSUME NEW R \in Ledgers', r \in R PROVE r \in KnownRows \/ \E a \in Actors : Adds(a) /\ r = NewRow(a)
  BY <1>2, <1>4, LedgersStep, KnownKinds
<1>5. QED
  BY <1>1, <1>3, <1>4
-----------------------------------------------------------------------------
(* The records keep their promise.                                         *)

\* What the invariant says of the records, once no name was handed out twice.
LEMMA RecordsSay ==
    ASSUME RecordsInv, ~ retaken
    PROVE  /\ \A R \in Ledgers : Ordered(R)
           /\ \A r \in KnownRows : RowFits(r)
           /\ \A a \in Actors : \A r \in Victims(a) : Better(r, r.nth + 1)
           /\ \A a \in Actors : Unrecorded(a) => BuildFits(a)
           /\ Unrecorded("gui") /\ Unrecorded("scheduler") =>
                 work["gui"].path # work["scheduler"].path
  BY DEF RecordsInv

\* Empty tables are in order.
LEMMA EmptyOrdered == Ordered({})
  BY FS_EmptySet DEF Ordered

\* The new steps of the tables are in order when no record is added.
LEMMA LedgersOrdered ==
    ASSUME ShelfTypeOK, RecordsInv, ~ retaken, [ShelfNext]_shelfVars, \A a \in Actors : ~ Adds(a)
    PROVE  /\ \A R \in Ledgers' : Ordered(R)
           /\ KnownRows' \subseteq KnownRows
  BY LedgersStep, KnownStep, EmptyOrdered, RecordsSay

\* A package being built keeps its name, its kind and its number.
Same(b) == /\ Unrecorded(b) /\ work'[b].path = work[b].path
           /\ work'[b].type = work[b].type /\ work'[b].nth = work[b].nth

\* A step that adds nothing and leaves the shelf, the clock and the names alone.
LEMMA RecordsKept ==
    ASSUME ShelfTypeOK, RecordsInv, [ShelfNext]_shelfVars, \A a \in Actors : ~ Adds(a),
           UNCHANGED <<shelf, clock, made, given, retaken>>,
           \A a \in Actors : Victims(a)' \subseteq Victims(a),
           \A b \in Actors : Unrecorded(b)' => Same(b) /\ (work'[b].step = "record" <=> At(b, "record"))
    PROVE  RecordsInv'
<1> SUFFICES ASSUME ~ retaken PROVE RecordsInv'
  BY DEF RecordsInv
<1>1. \A R \in Ledgers' : Ordered(R)
  BY LedgersOrdered
<1>2. ASSUME NEW r, NEW n, Better(r, n) PROVE Better(r, n)'
  BY <1>2 DEF Better, Valid, ManifestParses, Compatible, ContentMatches
<1>3. \A r \in KnownRows' : RowFits(r)'
  BY <1>2, LedgersOrdered, RecordsSay DEF RowFits, Handed, Same
<1>4. \A a \in Actors : \A r \in Victims(a)' : Better(r, r.nth + 1)'
  BY <1>2, RecordsSay
<1>5. \A b \in Actors : Unrecorded(b)' => BuildFits(b)'
  BY RecordsSay DEF BuildFits, Handed, Taken, Same, At
<1>6. Unrecorded("gui")' /\ Unrecorded("scheduler")' => work'["gui"].path # work'["scheduler"].path
  BY RecordsSay DEF Same, Actors
<1>7. QED
  BY <1>1, <1>3, <1>4, <1>5, <1>6 DEF RecordsInv

\* A package is put on the shelf, whole or broken.
LEMMA PutKeeps ==
    ASSUME ShelfTypeOK, RecordsInv, [ShelfNext]_shelfVars, \A b \in Actors : ~ Adds(b),
           NEW a \in Actors, WritePackage(a) \/ WriteFails(a)
    PROVE  RecordsInv'
<1>1. At(a, "write") /\ UNCHANGED <<db, disk, clock, made, given, retaken, torn>>
  BY DEF WritePackage, WriteFails
<1> SUFFICES ASSUME ~ retaken PROVE RecordsInv'
  BY <1>1 DEF RecordsInv
<1>2. Unrecorded(a) /\ BuildFits(a) /\ ~ Taken(work[a].path)
  BY <1>1, RecordsSay DEF BuildFits, Unrecorded, At
<1>3. PICK parses \in BOOLEAN : Put(Written(work[a], parses))
  BY DEF WritePackage, WriteFails
<1> DEFINE p == Written(work[a], parses)
<1>4. p.at = work[a].path /\ p.type = work[a].type /\ p.nth = work[a].nth
  BY DEF Written
<1> HIDE DEF p
<1>5. shelf' = shelf \union {p}
  BY <1>2, <1>3, <1>4 DEF Put, Taken, p
<1>6. ASSUME NEW b \in Actors, Unrecorded(b)'
      PROVE  /\ Same(b) /\ (b # a => work'[b] = work[b])
             /\ b = a => WritePackage(a) /\ work'[a].step = "record"
  <2>1. BuildPackage(a)
    BY DEF BuildPackage
  <2>2. work'[a].step \notin {"list", "write"}
    BY <1>1, <2>1, BuildCarries DEF At
  <2>3. b = a => work'[a].step = "record" /\ Same(a)
    BY <1>1, <1>6, <2>1, <2>2, BuildCarries DEF Unrecorded, Same, At
  <2>4. b # a => work'[b] = work[b] /\ Same(b)
    BY <1>6, <2>1, BuildCarries DEF Unrecorded, Same
  <2>5. WriteFails(a) => work'[a].step # "record"
    BY DEF WriteFails, PackageEnds, EndCall, Idle, ShelfTypeOK
  <2>6. QED
    BY <2>3, <2>4, <2>5
<1>7. \A R \in Ledgers' : Ordered(R)
  BY LedgersOrdered
<1>8. ASSUME NEW r, NEW n, Better(r, n) PROVE Better(r, n)'
  BY <1>5, <1>8 DEF Better, Valid, ManifestParses, Compatible, ContentMatches
<1>9. \A r \in KnownRows' : RowFits(r)'
  <2>1. TAKE r \in KnownRows'
  <2>2. RowFits(r)
    BY LedgersOrdered, RecordsSay
  <2>3. \A q \in shelf' : q.at = r.path => q.type = r.type /\ q.nth = r.nth
    BY <1>2, <1>4, <1>5, <2>2 DEF RowFits
  <2>4. \A b \in Actors : Unrecorded(b)' => /\ r.path # work'[b].path
                                            /\ r.type = work'[b].type => r.nth < work'[b].nth
    BY <1>6, <2>2 DEF RowFits, Same
  <2>5. r.sec <= clock' /\ r.nth <= made' /\ Handed(r.path)'
    BY <1>1, <2>2 DEF RowFits, Handed
  <2>6. Better(r, r.nth)'
    BY <1>8, <2>2 DEF RowFits
  <2>7. QED
    BY <2>3, <2>4, <2>5, <2>6 DEF RowFits
<1>10. \A b \in Actors : \A r \in Victims(b)' : Better(r, r.nth + 1)'
  <2>1. \A b \in Actors : Victims(b)' \subseteq Victims(b)
    <3>1. TAKE b \in Actors
    <3>2. work'[a].step # "purge" /\ (b # a => work'[b] = work[b])
      <4>1. BuildPackage(a)
        BY DEF BuildPackage
      <4>2. work'[a].step \in {"record", "idle", "stage"}
        <5>1. work[a] \in Builds(TypesOf(a)) /\ DOMAIN work = Actors
          BY <1>1, WorkKinds DEF InBuild, At, ShelfTypeOK
        <5>2. CASE WritePackage(a)
          BY <5>1, <5>2 DEF WritePackage, Proceed, Builds
        <5>3. CASE WriteFails(a)
          BY <5>1, <5>3 DEF WriteFails, PackageEnds, EndCall, Idle
        <5>4. QED
          BY <5>2, <5>3
      <4>3. QED
        BY <4>1, <4>2, BuildCarries
    <3>3. ~ SelectVictims(b)
      BY <3>2 DEF SelectVictims, At, ShelfTypeOK
    <3>4. QED
      BY <3>3, VictimsStep
  <2>2. QED
    BY <1>8, <2>1, RecordsSay
<1>11. ASSUME NEW b \in Actors, Unrecorded(b)' PROVE BuildFits(b)'
  <2>1. BuildFits(b) /\ Same(b)
    BY <1>6, <1>11, RecordsSay DEF Same
  <2>2. work'[b].nth <= made' /\ Handed(work[b].path)'
    BY <1>1, <2>1 DEF BuildFits, Handed, Same
  <2>3. CASE b = a
    <3>1. work'[b].step = "record"
      BY <1>6, <1>11, <2>3
    <3>2. \A q \in shelf' : q.at = work'[b].path => q.type = work'[b].type /\ q.nth = work'[b].nth
      BY <1>2, <1>4, <1>5, <2>1, <2>3 DEF Same, Taken
    <3>3. QED
      BY <2>2, <3>1, <3>2 DEF BuildFits, At
  <2>4. CASE b # a
    <3>1. work'[b] = work[b]
      BY <1>6, <1>11, <2>4
    <3>2. work[b].path # work[a].path
      BY <1>2, <2>1, <2>4, RecordsSay DEF Actors, Same
    <3>3. QED
      BY <1>4, <1>5, <2>1, <2>2, <3>1, <3>2 DEF BuildFits, At, Taken
  <2>5. QED
    BY <2>3, <2>4
<1>12. Unrecorded("gui")' /\ Unrecorded("scheduler")' => work'["gui"].path # work'["scheduler"].path
  BY <1>6, RecordsSay DEF Same, Actors
<1>13. QED
  BY <1>7, <1>9, <1>10, <1>11, <1>12 DEF RecordsInv

\* The name given to a package is new.
LEMMA NewName ==
    ASSUME ShelfTypeOK, NEW a, NEW type, NEW dir, NEW keep, NEW chosen, NEW path \in Paths,
           Started(a, type, dir, keep, chosen, path), ~ retaken', NEW old \in Paths, Handed(old)
    PROVE  old # path /\ Handed(old)'
<1>1. path.sec \in Nat /\ old.sec \in Nat /\ clock \in Nat
  BY DEF Paths, ShelfTypeOK
<1>2. /\ clock' = path.sec /\ path.sec >= clock /\ given' \subseteq given \union {path}
      /\ path.sec = clock => given \subseteq given' /\ retaken' = (path \in given)
  BY DEF Started
<1>3. old.sec <= clock /\ (old.sec = clock => old \in given)
  BY DEF Handed
<1>4. old # path
  <2>1. path.sec = clock => path \notin given
    BY <1>2, Zenon
  <2>2. QED
    BY <1>1, <1>2, <1>3, <2>1
<1>5. old.sec <= clock' /\ (old.sec = clock' => old \in given')
  <2>1. CASE path.sec = clock
    BY <1>2, <1>3, <2>1
  <2>2. CASE path.sec > clock
    BY <1>1, <1>2, <1>3, <2>2
  <2>3. QED
    BY <1>1, <1>2, <2>1, <2>2
<1>6. QED
  BY <1>4, <1>5 DEF Handed

LEMMA RowsTyped ==
    ASSUME ShelfTypeOK, NEW r \in KnownRows
    PROVE  r \in RecordRow
<1>1. ASSUME NEW R \in Ledgers PROVE R \subseteq RecordRow
  <2>1. \A b \in Actors : InBuild(b) => work[b].snap \in Databases
    BY WorkKinds DEF Builds
  <2>2. \A b \in Actors : At(b, "replace") => work[b].package.snap \in Databases
    BY WorkKinds DEF Puts, Packages
  <2>3. \A p \in shelf : p.snap \in Databases
    BY DEF ShelfTypeOK, Packages
  <2>4. \E D \in Databases : R = D.rows
    BY <2>1, <2>2, <2>3, LedgerKinds DEF ShelfTypeOK
  <2>5. QED
    BY <2>4 DEF Databases
<1>2. ASSUME NEW b \in Actors PROVE Victims(b) \subseteq RecordRow
  BY WorkKinds DEF Victims, Purges
<1>3. QED
  BY <1>1, <1>2, KnownKinds

\* A package is begun.
LEMMA BeginsKeeps ==
    ASSUME ShelfTypeOK, RecordsInv, [ShelfNext]_shelfVars, \A b \in Actors : ~ Adds(b), Begins
    PROVE  RecordsInv'
<1>1. PICK a \in Actors, type \in Types, dir \in Dirs, keep \in Nat \ {0}, chosen \in Paths, path \in Paths :
        Started(a, type, dir, keep, chosen, path) /\ UNCHANGED <<db, disk, shelf, torn>>
  BY Zenon DEF Begins
<1> SUFFICES ASSUME ~ retaken' PROVE RecordsInv'
  BY DEF RecordsInv
<1>2. /\ work'[a].step = "list" /\ work'[a].path = path
      /\ work'[a].type = type /\ work'[a].nth = made + 1
      /\ \A b \in Actors \ {a} : work'[b] = work[b]
  BY <1>1, BeginsCarries
<1>3. ~ retaken /\ made' = made + 1 /\ made \in Nat /\ shelf' = shelf /\ ~ Taken(path)
  BY <1>1 DEF Started
<1>4. clock' = path.sec /\ path.sec >= clock /\ clock \in Nat /\ path.sec \in Nat /\ path \in given'
  BY <1>1 DEF Started, ShelfTypeOK, Paths
<1>5. ASSUME NEW old \in Paths, Handed(old) PROVE old # path /\ Handed(old)'
  BY <1>1, <1>5, NewName
<1>6. ASSUME NEW r, NEW n, Better(r, n) PROVE Better(r, n)'
  BY <1>3, <1>6 DEF Better, Valid, ManifestParses, Compatible, ContentMatches
<1>7. \A R \in Ledgers' : Ordered(R)
  BY <1>3, LedgersOrdered
<1>8. \A r \in KnownRows' : RowFits(r)'
  <2>1. TAKE r \in KnownRows'
  <2>2. RowFits(r) /\ r \in RecordRow
    BY <1>3, LedgersOrdered, RecordsSay, RowsTyped
  <2>3. r.path \in Paths /\ r.sec \in Nat /\ r.nth \in Nat
    BY <2>2 DEF RecordRow
  <2>4. r.path # path /\ Handed(r.path)'
    BY <1>5, <2>2, <2>3 DEF RowFits
  <2>5. r.sec <= clock' /\ r.nth <= made' /\ r.nth < made + 1
    BY <1>3, <1>4, <2>2, <2>3 DEF RowFits
  <2>6. \A b \in Actors : Unrecorded(b)' => /\ r.path # work'[b].path
                                            /\ r.type = work'[b].type => r.nth < work'[b].nth
    BY <1>2, <2>2, <2>4, <2>5 DEF RowFits, Unrecorded
  <2>7. \A p \in shelf' : p.at = r.path => p.type = r.type /\ p.nth = r.nth
    BY <1>3, <2>2 DEF RowFits
  <2>8. Better(r, r.nth)'
    BY <1>6, <2>2 DEF RowFits
  <2>9. QED
    BY <2>4, <2>5, <2>6, <2>7, <2>8 DEF RowFits
<1>9. \A b \in Actors : \A r \in Victims(b)' : Better(r, r.nth + 1)'
  BY <1>2, <1>3, <1>6, RecordsSay DEF Victims, At
<1>10. ASSUME NEW b \in Actors, b # a, Unrecorded(b)'
       PROVE  Unrecorded(b) /\ BuildFits(b) /\ work'[b] = work[b] /\ work[b].path \in Paths /\ work[b].nth \in Nat
  <2>1. Unrecorded(b) /\ work'[b] = work[b]
    BY <1>2, <1>10 DEF Unrecorded
  <2>2. work[b] \in Builds(TypesOf(b))
    BY <2>1, WorkKinds DEF Unrecorded, InBuild
  <2>3. QED
    BY <1>3, <2>1, <2>2, RecordsSay DEF Builds
<1>11. ASSUME NEW b \in Actors, Unrecorded(b)' PROVE BuildFits(b)'
  <2>1. CASE b = a
    <3>1. work'[b].nth <= made' /\ Handed(path)'
      BY <1>2, <1>3, <1>4, <2>1 DEF Handed
    <3>2. ~ Taken(path)'
      BY <1>3 DEF Taken
    <3>3. QED
      BY <1>2, <2>1, <3>1, <3>2 DEF BuildFits, At
  <2>2. CASE b # a
    <3>1. Handed(work[b].path)'
      BY <1>5, <1>10, <1>11, <2>2 DEF BuildFits
    <3>2. QED
      BY <1>3, <1>10, <1>11, <2>2, <3>1 DEF BuildFits, At, Taken
  <2>3. QED
    BY <2>1, <2>2
<1>12. ASSUME NEW b \in Actors, b # a, Unrecorded(b)' PROVE work'[b].path # path
  BY <1>5, <1>10, <1>12 DEF BuildFits
<1>13. Unrecorded("gui")' /\ Unrecorded("scheduler")' => work'["gui"].path # work'["scheduler"].path
  BY <1>2, <1>12 DEF Actors
<1>14. QED
  BY <1>7, <1>8, <1>9, <1>11, <1>13 DEF RecordsInv

\* Too many records are chosen: for each there is a newer one.
LEMMA SelectKeeps ==
    ASSUME ShelfTypeOK, RecordsInv, [ShelfNext]_shelfVars, \A b \in Actors : ~ Adds(b),
           NEW a \in Actors, SelectVictims(a)
    PROVE  RecordsInv'
<1>1. At(a, "retain") /\ UNCHANGED <<active, db, disk, shelf, clock, made, given, retaken, torn>>
  BY DEF SelectVictims
<1> SUFFICES ASSUME ~ retaken PROVE RecordsInv'
  BY <1>1 DEF RecordsInv
<1>2. work'[a].step = "purge" /\ \A b \in Actors \ {a} : work'[b] = work[b]
  BY DEF SelectVictims, ShelfTypeOK
<1>3. ASSUME NEW r, NEW n, Better(r, n) PROVE Better(r, n)'
  BY <1>1, <1>3 DEF Better, Valid, ManifestParses, Compatible, ContentMatches
<1>4. \A R \in Ledgers' : Ordered(R)
  BY LedgersOrdered
<1>5. \A r \in KnownRows' : RowFits(r)'
  <2>1. TAKE r \in KnownRows'
  <2>2. RowFits(r)
    BY LedgersOrdered, RecordsSay
  <2>3. Better(r, r.nth)'
    BY <1>3, <2>2 DEF RowFits
  <2>4. QED
    BY <1>1, <1>2, <2>2, <2>3 DEF RowFits, Handed, Unrecorded
<1>6. ASSUME NEW r \in work'[a].victims PROVE r \in db.rows /\ Better(r, r.nth + 1)
  <2>1. work[a] \in Builds(TypesOf(a))
    BY <1>1, WorkKinds DEF InBuild, At
  <2> DEFINE keep == IF a = "gui" THEN db.keep ELSE work[a].keep
             newer == {s \in db.rows : s.type = work[a].type /\ After(s, r)}
  <2>2. keep \in Nat \ {0}
    BY <2>1 DEF Builds, ShelfTypeOK, Databases
  <2>3. work'[a].victims = {v \in list_successes_for_retention(work[a].type, keep) : v.path.dir = work[a].dir}
    BY DEF SelectVictims, ShelfTypeOK
  <2>4. r \in db.rows /\ r.type = work[a].type /\ Cardinality(newer) >= keep
    BY <2>3 DEF list_successes_for_retention
  <2>5. IsFiniteSet(newer) /\ Cardinality(newer) \in Nat
    <3>1. IsFiniteSet(db.rows) /\ newer \subseteq db.rows
      BY DEF ShelfTypeOK, Databases
    <3>2. QED
      BY <3>1, FS_Subset, FS_CardinalityType
  <2>6. newer # {}
    <3>1. Cardinality(newer) # 0
      BY <2>2, <2>4, <2>5
    <3>2. QED
      BY <2>5, <3>1, FS_EmptySet
  <2>7. PICK s \in db.rows : s.type = r.type /\ After(s, r)
    BY <2>4, <2>6
  <2>8. db.rows \in Ledgers
    BY LedgerKinds
  <2>9. s.nth > r.nth /\ RowFits(s) /\ s \in RecordRow /\ r \in RecordRow
    <3>1. s \in KnownRows /\ r \in KnownRows
      BY <2>4, <2>8, KnownKinds
    <3>2. Ordered(db.rows)
      BY <2>8, RecordsSay
    <3>3. QED
      BY <2>4, <2>7, <3>1, <3>2, RecordsSay, RowsTyped DEF Ordered
  <2>10. s.nth \in Nat /\ r.nth \in Nat
    BY <2>9 DEF RecordRow
  <2>11. PICK q \in shelf : q.type = s.type /\ q.nth >= s.nth /\ Valid(q, Current)
    BY <2>9 DEF RowFits, Better
  <2>12. q.nth \in Nat
    BY DEF ShelfTypeOK, Packages
  <2>13. QED
    BY <2>4, <2>7, <2>9, <2>10, <2>11, <2>12 DEF Better
<1>7. \A b \in Actors : \A r \in Victims(b)' : Better(r, r.nth + 1)'
  <2>1. TAKE b \in Actors
  <2>2. TAKE r \in Victims(b)'
  <2>3. CASE b = a
    BY <1>2, <1>3, <1>6, <2>3 DEF Victims, At
  <2>4. CASE b # a
    BY <1>2, <1>3, <2>4, RecordsSay DEF Victims, At
  <2>5. QED
    BY <2>3, <2>4
<1>8. \A b \in Actors : Unrecorded(b)' => b # a /\ work'[b] = work[b]
  BY <1>2 DEF Unrecorded
<1>9. \A b \in Actors : Unrecorded(b)' => BuildFits(b)'
  BY <1>1, <1>8, RecordsSay DEF BuildFits, Handed, Taken, Unrecorded, At
<1>10. Unrecorded("gui")' /\ Unrecorded("scheduler")' => work'["gui"].path # work'["scheduler"].path
  BY <1>8, RecordsSay DEF Unrecorded, Actors
<1>11. QED
  BY <1>4, <1>5, <1>7, <1>9, <1>10 DEF RecordsInv

\* A record about to be purged is not the newest: whichever package is taken from
\* the shelf, one as new as every record promises is left.
LEMMA BetterStays ==
    ASSUME ShelfTypeOK, RecordsInv, ~ retaken, NEW a \in Actors, NEW r \in Victims(a),
           shelf' = {p \in shelf : p.at # r.path}, NEW s, NEW n \in Nat, Better(s, n)
    PROVE  Better(s, n)'
<1>1. RowFits(r) /\ Better(r, r.nth + 1) /\ r \in RecordRow
  BY KnownKinds, RecordsSay, RowsTyped
<1>2. PICK newer \in shelf : newer.type = r.type /\ newer.nth >= r.nth + 1 /\ Valid(newer, Current)
  BY <1>1 DEF Better
<1>3. newer.nth \in Nat /\ r.nth \in Nat
  BY <1>1 DEF ShelfTypeOK, Packages, RecordRow
<1>4. newer \in shelf'
  BY <1>1, <1>2, <1>3 DEF RowFits
<1>5. PICK q \in shelf : q.type = s.type /\ q.nth >= n /\ Valid(q, Current)
  BY DEF Better
<1>6. CASE q \in shelf'
  BY <1>5, <1>6 DEF Better, Valid, ManifestParses, Compatible, ContentMatches
<1>7. CASE q \notin shelf'
  <2>1. q.type = r.type /\ q.nth = r.nth
    BY <1>1, <1>5, <1>7 DEF RowFits
  <2>2. newer.type = s.type /\ newer.nth >= n
    BY <1>2, <1>3, <1>5, <2>1
  <2>3. QED
    BY <1>2, <1>4, <2>2 DEF Better, Valid, ManifestParses, Compatible, ContentMatches
<1>8. QED
  BY <1>6, <1>7

\* A package is purged.
LEMMA UnlinkKeeps ==
    ASSUME ShelfTypeOK, RecordsInv, [ShelfNext]_shelfVars, \A b \in Actors : ~ Adds(b),
           NEW a \in Actors, Unlink(a)
    PROVE  RecordsInv'
<1>1. At(a, "purge") /\ UNCHANGED <<active, db, disk, clock, made, given, retaken, torn>>
  BY DEF Unlink
<1> SUFFICES ASSUME ~ retaken PROVE RecordsInv'
  BY <1>1 DEF RecordsInv
<1>2. PICK r \in work[a].victims : /\ shelf' = {p \in shelf : p.at # r.path}
                                   /\ work' = [work EXCEPT ![a].victims = @ \ {r}]
  BY DEF Unlink
<1>3. r \in Victims(a)
  BY <1>1, <1>2 DEF Victims
<1>4. work[a] \in Purges(TypesOf(a))
  BY <1>1, WorkKinds
<1>5. work'[a].step = "purge" /\ \A b \in Actors \ {a} : work'[b] = work[b]
  BY <1>1, <1>2, <1>4 DEF ShelfTypeOK, At, Purges
<1>6. ASSUME NEW s, NEW n \in Nat, Better(s, n) PROVE Better(s, n)'
  BY <1>2, <1>3, <1>6, BetterStays
<1>7. \A R \in Ledgers' : Ordered(R)
  BY LedgersOrdered
<1>8. \A s \in KnownRows' : RowFits(s)'
  <2>1. TAKE s \in KnownRows'
  <2>2. RowFits(s) /\ s.nth \in Nat
    BY LedgersOrdered, RecordsSay, RowsTyped DEF RecordRow
  <2>3. Better(s, s.nth)'
    BY <1>6, <2>2 DEF RowFits
  <2>4. QED
    BY <1>1, <1>2, <1>5, <2>2, <2>3 DEF RowFits, Handed, Unrecorded
<1>9. \A b \in Actors : \A s \in Victims(b)' : Better(s, s.nth + 1)'
  <2>1. TAKE b \in Actors
  <2>2. TAKE s \in Victims(b)'
  <2>3. s \in Victims(b)
    <3>1. b = a => ~ SelectVictims(b)
      BY <1>1 DEF SelectVictims, At
    <3>2. b # a => Victims(b)' \subseteq Victims(b)
      BY <1>5 DEF Victims, At
    <3>3. QED
      BY <3>1, <3>2, VictimsStep
  <2>4. s.nth + 1 \in Nat
    BY <2>3, KnownKinds, RowsTyped DEF RecordRow
  <2>5. QED
    BY <1>6, <2>3, <2>4, RecordsSay
<1>10. \A b \in Actors : Unrecorded(b)' => b # a /\ work'[b] = work[b]
  BY <1>5 DEF Unrecorded
<1>11. \A b \in Actors : Unrecorded(b)' => BuildFits(b)'
  BY <1>1, <1>2, <1>10, RecordsSay DEF BuildFits, Handed, Taken, Unrecorded, At
<1>12. Unrecorded("gui")' /\ Unrecorded("scheduler")' => work'["gui"].path # work'["scheduler"].path
  BY <1>10, RecordsSay DEF Unrecorded, Actors
<1>13. QED
  BY <1>7, <1>8, <1>9, <1>11, <1>12 DEF RecordsInv

\* The record of a new package is the latest of its kind.
LEMMA RecordedOrdered ==
    ASSUME ShelfTypeOK, RecordsInv, ~ retaken, NEW a \in Actors, At(a, "record")
    PROVE  Ordered(db.rows \union {NewRow(a)})
<1> DEFINE n == NewRow(a)
<1>1. work[a] \in Builds(TypesOf(a)) /\ Unrecorded(a)
  BY WorkKinds DEF InBuild, Unrecorded, At
<1>2. db.rows \in Ledgers /\ Ordered(db.rows) /\ IsFiniteSet(db.rows) /\ Cardinality(db.rows) \in Nat
  BY LedgerKinds, RecordsSay, FS_CardinalityType DEF ShelfTypeOK, Databases
<1>3. n.type = work[a].type /\ n.sec = clock /\ n.id = Cardinality(db.rows) + 1 /\ n.nth = work[a].nth
  BY DEF NewRow
<1> HIDE DEF n
<1>4. \A r \in db.rows : /\ r \in RecordRow /\ r.sec <= clock /\ r.id <= Cardinality(db.rows)
                         /\ r.type = n.type => r.nth < n.nth
  <2>1. TAKE r \in db.rows
  <2>2. r \in RecordRow /\ RowFits(r)
    BY <1>2, KnownKinds, RecordsSay, RowsTyped
  <2>3. QED
    BY <1>1, <1>2, <1>3, <2>2 DEF RowFits, Ordered
<1>5. n \notin db.rows
  BY <1>2, <1>3, <1>4
<1>6. /\ IsFiniteSet(db.rows \union {n})
      /\ Cardinality(db.rows \union {n}) = Cardinality(db.rows) + 1
  BY <1>2, <1>5, FS_AddElement
<1>7. \A r \in db.rows \union {n} : r.id <= Cardinality(db.rows \union {n})
  BY <1>2, <1>3, <1>4, <1>6 DEF RecordRow
<1>8. ASSUME NEW r \in db.rows \union {n}, NEW s \in db.rows \union {n}, r.type = s.type, After(s, r)
      PROVE  s.nth > r.nth
  <2>1. clock \in Nat /\ n.nth \in Nat
    BY <1>1, <1>3 DEF ShelfTypeOK, Builds
  <2>2. CASE r \in db.rows /\ s \in db.rows
    BY <1>2, <1>8, <2>2 DEF Ordered
  <2>3. CASE r \in db.rows /\ s = n
    BY <1>4, <1>8, <2>1, <2>3 DEF RecordRow
  <2>4. CASE r = n
    <3>1. CASE s = n
      BY <1>2, <1>3, <1>8, <2>1, <2>4, <3>1 DEF After
    <3>2. CASE s \in db.rows
      BY <1>2, <1>3, <1>4, <1>8, <2>1, <2>4, <3>2 DEF After, RecordRow
    <3>3. QED
      BY <3>1, <3>2
  <2>5. QED
    BY <2>2, <2>3, <2>4
<1>9. QED
  BY <1>6, <1>7, <1>8 DEF Ordered, n

\* A record is added.
LEMMA AddsKeeps ==
    ASSUME ShelfTypeOK, SchemaInv, RecordsInv, [ShelfNext]_shelfVars, NEW a \in Actors, Adds(a)
    PROVE  RecordsInv'
<1>1. At(a, "record") /\ UNCHANGED <<disk, shelf, clock, made, given, retaken, torn>>
  BY DEF Adds, RecordPackage
<1> SUFFICES ASSUME ~ retaken PROVE RecordsInv'
  BY <1>1 DEF RecordsInv
<1>2. work[a] \in Builds(TypesOf(a)) /\ Unrecorded(a) /\ BuildFits(a) /\ DOMAIN work = Actors
  BY <1>1, WorkKinds, RecordsSay DEF InBuild, Unrecorded, At, ShelfTypeOK
<1>3. work'[a].step \in {"retain", "stage"} /\ \A b \in Actors \ {a} : work'[b] = work[b]
  <2>1. PackageEnds(a, Proceed(a, "retain"))
    BY DEF Adds, RecordPackage
  <2>2. \/ work' = [work EXCEPT ![a] = [step |-> "stage", chosen |-> work[a].chosen]]
        \/ work' = [work EXCEPT ![a].step = "retain"]
    BY <2>1 DEF PackageEnds, Proceed
  <2>3. QED
    BY <1>2, <2>2 DEF Builds
<1>4. \A b \in Actors : Adds(b) => b = a
  <2>1. ASSUME NEW b \in Actors, b # a, Adds(b) PROVE FALSE
    <3>1. At(b, "record") /\ PackageEnds(b, Proceed(b, "retain"))
      BY <2>1 DEF Adds, RecordPackage
    <3>2. work[b] \in Builds(TypesOf(b))
      BY <3>1, WorkKinds DEF InBuild, At
    <3>3. work'[b].step \in {"retain", "stage"}
      BY <1>2, <3>1, <3>2 DEF PackageEnds, Proceed, Builds
    <3>4. QED
      BY <1>3, <2>1, <3>1, <3>3 DEF At
  <2>2. QED
    BY <2>1
<1>5. ASSUME NEW r, NEW n, Better(r, n) PROVE Better(r, n)'
  BY <1>1, <1>5 DEF Better, Valid, ManifestParses, Compatible, ContentMatches
<1>6. \A R \in Ledgers' : Ordered(R)
  BY <1>1, <1>4, LedgersStep, EmptyOrdered, RecordsSay, RecordedOrdered
<1>7. \A b \in Actors : Unrecorded(b)' => b # a /\ work'[b] = work[b] /\ Unrecorded(b)
  BY <1>3 DEF Unrecorded
<1>8. ASSUME NEW r \in KnownRows PROVE RowFits(r)'
  <2>1. RowFits(r)
    BY RecordsSay
  <2>2. Better(r, r.nth)'
    BY <1>5, <2>1 DEF RowFits
  <2>3. \A b \in Actors : Unrecorded(b)' => /\ r.path # work'[b].path
                                            /\ r.type = work'[b].type => r.nth < work'[b].nth
    BY <1>7, <2>1 DEF RowFits
  <2>4. QED
    BY <1>1, <2>1, <2>2, <2>3 DEF RowFits, Handed
<1>9. ASSUME NEW n, n = NewRow(a) PROVE RowFits(n)'
  <2>1. n.type = work[a].type /\ n.path = work[a].path /\ n.sec = clock /\ n.nth = work[a].nth
    BY <1>9 DEF NewRow
  <2>2. PICK p \in shelf : p.at = work[a].path /\ Valid(p, db.schema)
    BY ChosenPackage DEF Adds
  <2>3. p.type = n.type /\ p.nth = n.nth
    BY <1>1, <1>2, <2>1, <2>2 DEF BuildFits
  <2>4. Valid(p, Current)
    BY <2>2, ShelfAssumption DEF Valid, Compatible, SchemaInv, ShelfTypeOK, Packages, Databases
  <2>5. n.nth \in Nat /\ clock \in Nat
    BY <1>2, <2>1 DEF Builds, ShelfTypeOK
  <2>6. Better(n, n.nth)
    BY <2>3, <2>4, <2>5 DEF Better
  <2>7. Better(n, n.nth)'
    BY <1>5, <2>6
  <2>8. \A q \in shelf' : q.at = n.path => q.type = n.type /\ q.nth = n.nth
    BY <1>1, <1>2, <2>1 DEF BuildFits
  <2>9. n.sec <= clock' /\ n.nth <= made' /\ Handed(n.path)'
    BY <1>1, <1>2, <2>1, <2>5 DEF BuildFits, Handed
  <2>10. \A b \in Actors : Unrecorded(b)' => n.path # work'[b].path /\ n.type # work'[b].type
    <3>1. TAKE b \in Actors
    <3>2. HAVE Unrecorded(b)'
    <3>3. b # a /\ work'[b] = work[b] /\ Unrecorded(b)
      BY <1>7, <3>2
    <3>4. work[b] \in Builds(TypesOf(b))
      BY <3>3, WorkKinds DEF Unrecorded, InBuild
    <3>5. work[a].type # work[b].type
      BY <1>2, <3>3, <3>4 DEF Builds, TypesOf, GuiTypes, Actors
    <3>6. work[a].path # work[b].path
      BY <1>2, <3>3, RecordsSay DEF Actors
    <3>7. QED
      BY <2>1, <3>3, <3>5, <3>6
  <2>11. QED
    BY <2>7, <2>8, <2>9, <2>10 DEF RowFits
<1>10. \A r \in KnownRows' : RowFits(r)'
  BY <1>4, <1>8, <1>9, KnownStep
<1>11. \A b \in Actors : \A r \in Victims(b)' : Better(r, r.nth + 1)'
  <2>1. \A b \in Actors : Victims(b)' \subseteq Victims(b)
    BY <1>3 DEF Victims, At
  <2>2. QED
    BY <1>5, <2>1, RecordsSay
<1>12. \A b \in Actors : Unrecorded(b)' => BuildFits(b)'
  BY <1>1, <1>7, RecordsSay DEF BuildFits, Handed, Taken, At
<1>13. Unrecorded("gui")' /\ Unrecorded("scheduler")' => work'["gui"].path # work'["scheduler"].path
  BY <1>7, RecordsSay DEF Actors
<1>14. QED
  BY <1>6, <1>10, <1>11, <1>12, <1>13 DEF RecordsInv

LEMMA RecordsStep ==
    ASSUME ShelfTypeOK, SchemaInv, RecordsInv, [ShelfNext]_shelfVars
    PROVE  RecordsInv'
<1>1. CASE \E a \in Actors : Adds(a)
  BY <1>1, AddsKeeps
<1>2. CASE \A a \in Actors : ~ Adds(a)
  <2>1. ASSUME NEW a \in Actors, ListFiles(a) \/ RecordPackage(a) \/ PurgeEnds(a) PROVE RecordsInv'
    <3>1. BuildPackage(a) /\ ~ At(a, "retain") /\ ~ At(a, "write")
      BY <2>1 DEF BuildPackage, ListFiles, RecordPackage, PurgeEnds, At
    <3>2. UNCHANGED <<shelf, clock, made, given, retaken>>
      BY <2>1 DEF ListFiles, RecordPackage, PurgeEnds
    <3>3. \A b \in Actors \ {a} : work'[b] = work[b]
      BY <3>1, BuildCarries
    <3>4. ASSUME NEW b \in Actors PROVE Victims(b)' \subseteq Victims(b)
      <4>1. b = a => ~ SelectVictims(b)
        BY <3>1 DEF SelectVictims
      <4>2. b # a => Victims(b)' \subseteq Victims(b)
        BY <3>3 DEF Victims, At
      <4>3. QED
        BY <4>1, <4>2, VictimsStep
    <3>5. ASSUME NEW b \in Actors, Unrecorded(b)'
          PROVE  Same(b) /\ (work'[b].step = "record" <=> At(b, "record"))
      <4>1. CASE b = a
        <5>1. work'[a].step = "write" /\ At(a, "list")
          BY <3>1, <3>5, <4>1, BuildCarries DEF Unrecorded
        <5>2. QED
          BY <3>1, <4>1, <5>1, BuildCarries DEF Same, Unrecorded, At
      <4>2. CASE b # a
        BY <3>3, <3>5, <4>2 DEF Same, Unrecorded, At
      <4>3. QED
        BY <4>1, <4>2
    <3>6. QED
      BY <1>2, <3>2, <3>4, <3>5, RecordsKept
  <2>2. ASSUME NEW a \in Actors, BuildPackage(a) PROVE RecordsInv'
    BY <1>2, <2>1, <2>2, PutKeeps, SelectKeeps, UnlinkKeeps DEF BuildPackage
  <2>3. ASSUME UNCHANGED <<shelf, clock, made, given, retaken>>,
               \A b \in Actors : \/ work'[b] = work[b]
                                 \/ work'[b].step \in {"idle", "copying", "ask", "replace"}
        PROVE  RecordsInv'
    <3>1. \A b \in Actors : Victims(b)' \subseteq Victims(b)
      BY <2>3 DEF Victims, At
    <3>2. \A b \in Actors : Unrecorded(b)' => Same(b) /\ (work'[b].step = "record" <=> At(b, "record"))
      BY <2>3 DEF Unrecorded, Same, At
    <3>3. QED
      BY <1>2, <2>3, <3>1, <3>2, RecordsKept
  <2>4. CASE Begins
    BY <1>2, <2>4, BeginsKeeps
  <2>5. CASE Stages \/ Replaces
    BY <2>3, <2>5, RestoreCarries DEF Actors
  <2>6. CASE Quiet
    BY <2>3, <2>6 DEF Quiet
  <2>7. QED
    BY <2>2, <2>4, <2>5, <2>6, ShelfSteps
<1>3. QED
  BY <1>1, <1>2

LEMMA ShelfInitial == ASSUME ShelfInit PROVE ShelfInv
<1>1. EmptyDatabase \in Databases
  BY ShelfAssumption, FS_EmptySet DEF EmptyDatabase, Databases
<1>2. PICK p \in Foreign : shelf = {p}
  BY DEF ShelfInit
<1>3. /\ p \in Packages /\ p.nth = 0 /\ p.snap.rows = {} /\ p.snap.schema = p.schema
      /\ p.listed = p.stored => \A m \in p.snap.maps : p.stored[m] = "whole"
  BY ForeignAssumption
<1>4. \A a \in Actors : work[a] = Idle /\ work[a].step = "idle"
  BY DEF ShelfInit, Idle
<1>5. ShelfTypeOK
  <2>1. /\ work = [a \in Actors |-> work[a]] /\ work["gui"] \in GuiWork
        /\ work["scheduler"] \in SchedulerWork
    BY DEF ShelfInit, Idle, GuiWork, SchedulerWork, Idling, Actors
  <2>2. disk \in [Maps -> {"none", "partial", "whole", "lost"}] /\ made \in Nat /\ clock \in Nat
    BY DEF ShelfInit
  <2>3. active \subseteq Operations /\ given \subseteq Paths /\ shelf \subseteq Packages
    BY <1>2, <1>3 DEF ShelfInit
  <2>4. db \in Databases /\ retaken \in BOOLEAN /\ torn \in BOOLEAN
    BY <1>1 DEF ShelfInit
  <2>5. QED
    BY <2>1, <2>2, <2>3, <2>4 DEF ShelfTypeOK
<1>6. SchemaInv
  BY <1>2, <1>3, <1>4, ShelfAssumption DEF ShelfInit, SchemaInv, EmptyDatabase, InBuild, At, Actors
<1>7. MapsInv
  BY <1>2, <1>3, <1>4 DEF ShelfInit, MapsInv, EmptyDatabase, ContentMatches, Covered, At, Actors
<1>8. RecordsInv
  <2>1. \A b \in Actors : Victims(b) = {} /\ ~ InBuild(b) /\ ~ At(b, "replace") /\ ~ Unrecorded(b)
    BY <1>4 DEF Victims, InBuild, At, Unrecorded
  <2>2. \A R \in Ledgers : R = {}
    BY <1>2, <1>3, <2>1, LedgerKinds DEF ShelfInit, EmptyDatabase
  <2>3. KnownRows = {}
    BY <2>1, <2>2, KnownKinds
  <2>4. QED
    BY <2>1, <2>2, <2>3, EmptyOrdered DEF RecordsInv, Actors
<1>9. QED
  BY <1>5, <1>6, <1>7, <1>8 DEF ShelfInv

\* The invariant of the shelf holds for ever.
THEOREM ShelfInvariance == ShelfSpec => []ShelfInv
<1>1. ShelfInv /\ [ShelfNext]_shelfVars => ShelfInv'
  BY ShelfTypeStep, SchemaStep, MapsStep, RecordsStep DEF ShelfInv
<1>2. QED
  BY ShelfInitial, <1>1, PTL DEF ShelfSpec

\* After every restore the rows of maps have their whole files, however many
\* packages there are, whenever they were built and whichever is restored.
THEOREM RestoredMapsHaveFilesAlways == ShelfSpec => []RestoredMapsHaveFiles
<1>1. ShelfInv => RestoredMapsHaveFiles
  BY DEF ShelfInv, MapsInv, RestoredMapsHaveFiles
<1>2. QED
  BY <1>1, ShelfInvariance, PTL

\* What one step takes from the shelf.
Kept == \A p \in shelf :
           \/ \E q \in shelf' : q.at = p.at
           \/ retaken
           \/ \E q \in shelf' : q.type = p.type /\ q.nth > p.nth /\ Valid(q, Current)

LEMMA KeptStep == ASSUME ShelfInv, [ShelfNext]_shelfVars PROVE Kept
<1> USE DEF ShelfInv
<1>1. SUFFICES ASSUME NEW p \in shelf, ~ retaken, \A q \in shelf' : q.at # p.at
               PROVE  \E q \in shelf' : q.type = p.type /\ q.nth > p.nth /\ Valid(q, Current)
  BY DEF Kept
<1>2. PICK a \in Actors : Unlink(a)
  <2>1. ASSUME NEW a \in Actors, BuildPackage(a) PROVE Unlink(a)
    <3>1. ASSUME NEW p2, Put(p2) PROVE FALSE
      BY <1>1, <3>1 DEF Put
    <3>2. QED
      BY <1>1, <2>1, <3>1
      DEF BuildPackage, ListFiles, WritePackage, WriteFails, RecordPackage, SelectVictims, PurgeEnds
  <2>2. shelf' # shelf
    BY <1>1
  <2>3. CASE Begins
    BY <2>2, <2>3 DEF Begins
  <2>4. CASE Stages \/ Replaces
    BY <2>2, <2>4, RestoreCarries
  <2>5. CASE Quiet
    BY <2>2, <2>5 DEF Quiet
  <2>6. QED
    BY <2>1, <2>3, <2>4, <2>5, ShelfSteps
<1>3. PICK r \in work[a].victims : shelf' = {q \in shelf : q.at # r.path}
  BY <1>2 DEF Unlink
<1>4. r \in Victims(a)
  BY <1>2, <1>3 DEF Unlink, Victims
<1>5. RowFits(r) /\ Better(r, r.nth + 1) /\ r \in RecordRow
  BY <1>1, <1>4, KnownKinds, RecordsSay, RowsTyped
<1>6. p.at = r.path
  BY <1>1, <1>3
<1>7. p.type = r.type /\ p.nth = r.nth
  BY <1>5, <1>6 DEF RowFits
<1>8. PICK q \in shelf : q.type = r.type /\ q.nth >= r.nth + 1 /\ Valid(q, Current)
  BY <1>5 DEF Better
<1>9. q.nth \in Nat /\ r.nth \in Nat
  BY <1>5 DEF ShelfTypeOK, Packages, RecordRow
<1>10. q \in shelf'
  BY <1>3, <1>5, <1>8, <1>9 DEF RowFits
<1>11. QED
  BY <1>7, <1>8, <1>9, <1>10

\* Retention takes a package only while one of its kind that is newer and can be
\* restored stays, whatever keep_last is and however the directories were set.
THEOREM NewestStaysAlways == ShelfSpec => NewestStays
<1>1. ShelfInv /\ [ShelfNext]_shelfVars => [Kept]_shelfVars
  BY KeptStep
<1>2. QED
  BY <1>1, ShelfInvariance, PTL DEF ShelfSpec, NewestStays, Kept
-----------------------------------------------------------------------------
(* Both sides together.                                                    *)

\* Each side keeps its invariant while it acts, and the shelf its own always: of what
\* the schedule changes, it reads the locks alone.
SideInv == ShelfInv /\ (side = "schedule" => IInv)

LEMMA SideInvariance == SideSpec => []SideInv
<1>1. ASSUME SideInit PROVE SideInv
  BY <1>1, ShelfInitial, InvInit DEF SideInit, SideInv
<1>2. ASSUME SideInv, ScheduleSide PROVE SideInv'
  <2>1. IInv'
    BY <1>2, TypeStep, LockStep, ScheduleStep, FilesStep DEF SideInv, ScheduleSide, IInv
  <2>2. active' \subseteq Operations
    BY <2>1 DEF IInv, TypeOK
  <2>3. UNCHANGED shelfOnly
    BY <1>2 DEF ScheduleSide
  <2>4. ShelfTypeOK'
    BY <1>2, <2>2, <2>3 DEF SideInv, ShelfInv, ShelfTypeOK, shelfOnly
  <2>5. SchemaInv'
    BY <1>2, <2>3 DEF SideInv, ShelfInv, SchemaInv, shelfOnly, InBuild, At
  <2>6. MapsInv'
    BY <1>2, <2>3 DEF SideInv, ShelfInv, MapsInv, shelfOnly, ContentMatches, Covered, At
  <2>7. RecordsInv'
    BY <1>2, <2>3 DEF SideInv, ShelfInv, RecordsInv, shelfOnly, Ledgers, PackageLedgers, BuildLedgers,
         RestoreLedgers, KnownRows, Victims, RowFits, BuildFits, Better, Handed, Unrecorded, Taken,
         Valid, ManifestParses, Compatible, ContentMatches, InBuild, At
  <2>8. QED
    BY <2>1, <2>4, <2>5, <2>6, <2>7 DEF SideInv, ShelfInv
<1>3. ASSUME SideInv, ShelfSide PROVE SideInv'
  BY <1>3, ShelfTypeStep, SchemaStep, MapsStep, RecordsStep DEF SideInv, ShelfSide, ShelfInv
<1>4. ASSUME SideInv, UNCHANGED sideVars PROVE SideInv'
  <2>1. UNCHANGED shelfVars /\ UNCHANGED vars /\ side' = side
    BY <1>4 DEF sideVars, shelfOnly, shelfVars, locksOnly, vars
  <2>2. ShelfInv'
    BY <1>4, <2>1, ShelfTypeStep, SchemaStep, MapsStep, RecordsStep DEF SideInv, ShelfInv
  <2>3. IInv => IInv'
    BY <2>1, TypeStep, LockStep, ScheduleStep, FilesStep DEF IInv
  <2>4. QED
    BY <1>4, <2>1, <2>2, <2>3 DEF SideInv
<1>5. SideInv /\ [ScheduleSide \/ ShelfSide]_sideVars => SideInv'
  BY <1>2, <1>3, <1>4
<1>6. QED
  BY <1>1, <1>5, PTL DEF SideSpec

\* So the two promises of the shelf hold of the whole.
THEOREM ShelfOfTheSide == SideSpec => []RestoredMapsHaveFiles /\ NewestStays
<1>1. SideInv => RestoredMapsHaveFiles
  BY DEF SideInv, ShelfInv, MapsInv, RestoredMapsHaveFiles
<1>2. SideInv /\ [ScheduleSide \/ ShelfSide]_sideVars => [Kept]_shelfVars
  <2>1. ASSUME SideInv, ShelfSide PROVE Kept
    BY <2>1, KeptStep DEF SideInv, ShelfSide
  <2>2. ASSUME shelf' = shelf PROVE Kept
    BY <2>2 DEF Kept
  <2>3. QED
    BY <2>1, <2>2 DEF ScheduleSide, sideVars, shelfOnly
<1>3. QED
  BY <1>1, <1>2, SideInvariance, PTL DEF SideSpec, NewestStays, Kept
=============================================================================

----------------------------- MODULE BackupShelf -----------------------------
(***************************************************************************)
(* The packages in the backup directories: how one is built while the      *)
(* program goes on, checked, recorded, purged and put back                 *)
(* (services/backup_service.py, services/backup_package.py,                *)
(* db/repositories/backup_repository.py and the panels of                  *)
(* ui/settings/backup_page.py).                                            *)
(*                                                                         *)
(* The GUI thread makes its calls one at a time, the scheduler thread runs *)
(* its backup beside them.  The records of the packages lie in the         *)
(* database, which goes into every package and comes back with a restore;  *)
(* the packages themselves do not.  Module BackupRestore has the schedule, *)
(* the pause and the replacement file by file.                             *)
(***************************************************************************)
EXTENDS Naturals, RuntimeLocks

CONSTANTS Dirs,         \* directories inside the controlled one
          Root,         \* the controlled directory itself, one of them
          Maps,         \* names of map files, each drawn afresh (uuid4)
          Keeps,        \* values of keep_last
          Current,      \* the newest schema version, which a start migrates to
          Foreign,      \* packages that were brought from elsewhere
          MaxMade,      \* bound: packages built
          SaveAfter,    \* bound: settings are saved when so many have been built
          MaxClock      \* bound: seconds that matter to names and records

ASSUME ShelfAssumption ==
    /\ Root \in Dirs /\ Keeps \subseteq Nat \ {0} /\ Current \in Nat
    /\ MaxMade \in Nat /\ MaxClock \in Nat

\* What the tables hold, and a package; nth counts the packages (history).
Types == {"manual", "scheduled", "pre_restore"}
Paths == [dir : Dirs, prefix : {"", "backup", "pre_restore", "foreign"}, sec : Nat, n : Nat]
RecordRow == [type : Types, path : Paths, sec : Nat, id : Nat, nth : Nat]
Databases == {D \in [rows : SUBSET RecordRow, keep : Nat \ {0}, dir : Dirs, maps : SUBSET Maps,
                     schema : Nat] : IsFiniteSet(D.rows)}
Listings == [Maps -> {"none", "partial", "whole"}]
Packages == [at : Paths, type : Types \union {"foreign"}, nth : Nat, parses : BOOLEAN, schema : Nat,
             snap : Databases, listed : Listings, stored : Listings]

\* A package from elsewhere was built by this program, where no backup had been
\* recorded yet and none was cut short by another.
ASSUME ForeignAssumption ==
    \A p \in Foreign :
        /\ p \in Packages /\ p.nth = 0 /\ p.snap.rows = {} /\ p.snap.schema = p.schema
        /\ p.listed = p.stored => \A m \in p.snap.maps : p.stored[m] = "whole"

Actors == {"gui", "scheduler"}

VARIABLES db,        \* the live database: records, settings, rows of maps, schema
          disk,      \* disk[m]: "none", "partial", "whole", or "lost", in the maps directory
          shelf,     \* the packages in the backup directories
          clock,     \* seconds
          work,      \* work[a]: how far the call of a has come
          made,      \* packages begun so far
          given,     \* history: the paths handed out within this second
          retaken,   \* history: a path was handed out twice
          torn       \* history: files were replaced under a backup that had copied the
                     \* database and not listed the files

shelfVars == <<active, db, disk, shelf, clock, work, made, given, retaken, torn>>

Idle == [step |-> "idle"]
NoPath == [dir |-> Root, prefix |-> "", sec |-> 0, n |-> 0]
NothingListed == [m \in Maps |-> "none"]
At(a, step) == work[a].step = step
Proceed(a, step) == work' = [work EXCEPT ![a].step = step]
EndCall(a) == work' = [work EXCEPT ![a] = Idle]

\* restore_from_backup is under way, and with it the pause of the schedule.
Restoring == \/ work["gui"].step \in {"stage", "replace"}
             \/ work["gui"].step \notin {"idle", "copying"} /\ work["gui"].type = "pre_restore"

\* (Bound: keep_last is 1 until it is saved, where the program has ten.)
EmptyDatabase == [rows |-> {}, keep |-> 1, dir |-> Root, maps |-> {}, schema |-> Current]

ShelfInit ==
    /\ active = {} /\ clock = 0
    /\ db = EmptyDatabase
    \* No map can be uploaded, or one package less is built (a bound).
    /\ \/ made = 0 /\ disk = [m \in Maps |-> "lost"]
       \/ made = 1 /\ disk = [m \in Maps |-> "none"]
    /\ \E p \in Foreign : shelf = {p}
    /\ work = [a \in Actors |-> Idle]
    /\ given = {} /\ retaken = FALSE /\ torn = FALSE
-----------------------------------------------------------------------------
(* Settings.                                                               *)

\* _controlled_backup_dir.
Controlled(dir) == dir \in Dirs

\* BackupSettingsRepository.upsert, with the values that _normalize_settings lets by.
Upsert(keep, dir) == db' = [db EXCEPT !.keep = keep, !.dir = dir]

\* save_settings of the schedule panel; another directory is refused.
SaveSettings(keep, dir) ==
    /\ At("gui", "idle") /\ Controlled(dir) /\ made = SaveAfter
    /\ Upsert(keep, dir)
    /\ UNCHANGED <<active, disk, shelf, clock, work, made, given, retaken, torn>>
-----------------------------------------------------------------------------
(* One package.                                                            *)

\* _unique_backup_path: the first name of this second that no file has.
Taken(path) == \E p \in shelf : p.at = path
PathsFor(dir, prefix, sec) ==
    LET Name(n) == [dir |-> dir, prefix |-> prefix, sec |-> sec, n |-> n]
    IN  {Name(n) : n \in {k \in 0..MaxMade : ~ Taken(Name(k)) /\ \A j \in 0..(k - 1) : Taken(Name(j))}}

Prefix(type) == IF type = "pre_restore" THEN "pre_restore" ELSE "backup"

\* _create_backup_package_unlocked chooses the file, which is written later, and
\* copies the database.  (Bound: nothing is begun once a name was reused.)
StartPackage(a, type, dir, keep, chosen) ==
    \E now \in clock..MaxClock : \E path \in PathsFor(dir, Prefix(type), now) :
    LET same == IF now = clock THEN given ELSE {}
    IN  /\ made < MaxMade /\ made' = made + 1 /\ ~ retaken
        /\ clock' = now /\ given' = same \union {path}
        /\ retaken' = (path \in same)
        /\ work' = [work EXCEPT ![a] = [step |-> "list", type |-> type, dir |-> dir, keep |-> keep,
                                        chosen |-> chosen, path |-> path, nth |-> made + 1,
                                        snap |-> db, listed |-> NothingListed]]

\* Its keep_last is read when the package is done.
create_manual_backup(dir) ==
    /\ At("gui", "idle") /\ Controlled(dir)
    /\ Acquire("backup")
    /\ StartPackage("gui", "manual", dir, 1, NoPath)
    /\ UNCHANGED <<db, disk, shelf, torn>>

\* The callback: the pause flag and the settings first, then the lock.
ScheduledReads ==
    /\ At("scheduler", "idle") /\ ~ Restoring
    /\ work' = [work EXCEPT !["scheduler"] = [step |-> "ask", dir |-> db.dir, keep |-> db.keep]]
    /\ UNCHANGED <<active, db, disk, shelf, clock, made, given, retaken, torn>>

ScheduledAsks ==
    /\ At("scheduler", "ask")
    /\ IF HasConflict("backup")
       THEN EndCall("scheduler") /\ UNCHANGED <<active, clock, made, given, retaken>>
       ELSE /\ Acquire("backup")
            /\ StartPackage("scheduler", "scheduled", work["scheduler"].dir, work["scheduler"].keep, NoPath)
    /\ UNCHANGED <<db, disk, shelf, torn>>

\* Then the files of the maps are listed, with their sizes and hashes.
FilesThere == [m \in Maps |-> IF disk[m] = "lost" THEN "none" ELSE disk[m]]
ListFiles(a) ==
    /\ At(a, "list")
    /\ work' = [work EXCEPT ![a].step = "write", ![a].listed = FilesThere]
    /\ UNCHANGED <<active, db, disk, shelf, clock, made, given, retaken, torn>>

\* Mutant: the database is copied into the package last.
BugWritten(w, parses) ==
    [at |-> w.path, type |-> w.type, nth |-> w.nth, parses |-> parses, schema |-> w.snap.schema,
     snap |-> db, listed |-> w.listed, stored |-> [m \in Maps |->
         IF w.listed[m] = "none" THEN "none" ELSE FilesThere[m]]]

\* What create_backup_package leaves under the name: the copies of the files as
\* they are now, with the manifest of what they were.
Written(w, parses) ==
    [at |-> w.path, type |-> w.type, nth |-> w.nth, parses |-> parses, schema |-> w.snap.schema,
     snap |-> w.snap, listed |-> w.listed, stored |-> [m \in Maps |->
         IF w.listed[m] = "none" THEN "none" ELSE FilesThere[m]]]

Put(p) == shelf' = {q \in shelf : q.at # p.at} \union {p}

\* Another backup may be writing under the same name at the same time: the two
\* overlap, and what comes of it need not be a package.
Shared(a) == \E b \in Actors \ {a} : work[b].step \in {"write", "record"} /\ work[b].path = work[a].path

WritePackage(a) ==
    /\ At(a, "write") /\ Proceed(a, "record")
    /\ \E parses \in IF Shared(a) THEN BOOLEAN ELSE {TRUE} : Put(Written(work[a], parses))
    /\ UNCHANGED <<active, db, disk, clock, made, given, retaken, torn>>

\* The lock is given back; a restore goes on without its safety backup.
PackageEnds(a, next) ==
    IF work[a].type = "pre_restore"
    THEN work' = [work EXCEPT ![a] = [step |-> "stage", chosen |-> work[a].chosen]]
         /\ UNCHANGED active
    ELSE next /\ Release("backup")

\* The file cannot be written to its end, and what there is of it stays.
WriteFails(a) ==
    /\ At(a, "write") /\ Put(Written(work[a], FALSE))
    /\ PackageEnds(a, EndCall(a))
    /\ UNCHANGED <<db, disk, clock, made, given, retaken, torn>>
-----------------------------------------------------------------------------
(* validate_backup_package.                                                *)

ManifestParses(p) == p.parses
Compatible(p, schema) == p.schema <= schema

ContentMatches(p) == p.listed = p.stored

Valid(p, schema) == ManifestParses(p) /\ Compatible(p, schema) /\ ContentMatches(p)
PackageAt(path) == CHOOSE p \in shelf : p.at = path
ValidAt(path, schema) == Taken(path) /\ Valid(PackageAt(path), schema)
-----------------------------------------------------------------------------
(* Records and retention.                                                  *)

\* BackupRecordRepository.add.
Recorded(w) == db.rows \union {[type |-> w.type, path |-> w.path, sec |-> clock,
                                id |-> Cardinality(db.rows) + 1, nth |-> w.nth]}

\* What was written is checked, then recorded; that the record cannot be
\* written is ignored.
RecordPackage(a) ==
    /\ At(a, "record")
    /\ IF ValidAt(work[a].path, db.schema)
       THEN /\ \/ db' = [db EXCEPT !.rows = Recorded(work[a])]
               \/ UNCHANGED db
            /\ PackageEnds(a, Proceed(a, "retain"))
       ELSE PackageEnds(a, EndCall(a)) /\ UNCHANGED db
    /\ UNCHANGED <<disk, shelf, clock, made, given, retaken, torn>>

After(r, s) == r.sec > s.sec \/ (r.sec = s.sec /\ r.id > s.id)

\* Mutant: the oldest are kept.
Bug_list_successes_for_retention(type, keep) ==
    {r \in db.rows : /\ r.type = type
                     /\ Cardinality({s \in db.rows : s.type = type /\ After(r, s)}) >= keep}

\* The successes of the type but for the newest keep.
list_successes_for_retention(type, keep) ==
    {r \in db.rows : /\ r.type = type
                     /\ Cardinality({s \in db.rows : s.type = type /\ After(s, r)}) >= keep}

\* _apply_retention reads which records are too many; a manual backup reads
\* keep_last only now.  The lock is no longer held.
SelectVictims(a) ==
    /\ At(a, "retain")
    /\ LET keep == IF a = "gui" THEN db.keep ELSE work[a].keep
           rows == list_successes_for_retention(work[a].type, keep)
       IN  work' = [work EXCEPT ![a] = [step |-> "purge", type |-> work[a].type,
                        victims |-> {r \in rows : r.path.dir = work[a].dir}]]
    /\ UNCHANGED <<active, db, disk, shelf, clock, made, given, retaken, torn>>

\* The files of the directory are unlinked one by one, the newest record first.
Unlink(a) ==
    /\ At(a, "purge")
    /\ \E r \in work[a].victims :
           /\ \A s \in work[a].victims : ~ After(s, r)
           /\ shelf' = {p \in shelf : p.at # r.path}
           /\ work' = [work EXCEPT ![a].victims = @ \ {r}]
    /\ UNCHANGED <<active, db, disk, clock, made, given, retaken, torn>>

\* There is none left, or one could not be removed.
PurgeEnds(a) ==
    /\ At(a, "purge") /\ EndCall(a)
    /\ UNCHANGED <<active, db, disk, shelf, clock, made, given, retaken, torn>>
-----------------------------------------------------------------------------
(* Restore.                                                                *)

\* restore_selected, confirmed, and restore_from_backup: the chosen package is
\* checked, the schedule paused, the lock taken and the safety backup begun.
\* check_backup_file ends where the confirmation is missing.
RestoreBegins(path) ==
    /\ At("gui", "idle") /\ ValidAt(path, db.schema)
    /\ Acquire("restore")
    /\ StartPackage("gui", "pre_restore", Root, 1, path)
    /\ UNCHANGED <<db, disk, shelf, torn>>

RestoreEnds == EndCall("gui") /\ Release("restore")

\* stage_validated_package: checked again, since it may have been purged or
\* written over meanwhile, and unpacked.
StagePackage ==
    /\ At("gui", "stage")
    /\ IF ValidAt(work["gui"].chosen, db.schema)
       THEN /\ work' = [work EXCEPT !["gui"] = [step |-> "replace",
                            package |-> PackageAt(work["gui"].chosen)]]
            /\ UNCHANGED active
       ELSE RestoreEnds
    /\ UNCHANGED <<db, disk, shelf, clock, made, given, retaken, torn>>

\* The files of the package are put over what is there, which keeps its other
\* files; or they are rolled back.
ReplaceFiles ==
    /\ At("gui", "replace")
    /\ \/ /\ db' = work["gui"].package.snap
          /\ disk' = [m \in Maps |-> IF work["gui"].package.stored[m] = "none" THEN disk[m]
                                     ELSE work["gui"].package.stored[m]]
          /\ torn' = (torn \/ At("scheduler", "list"))
       \/ UNCHANGED <<db, disk, torn>>
    /\ RestoreEnds
    /\ UNCHANGED <<shelf, clock, made, given, retaken>>
-----------------------------------------------------------------------------
(* The surroundings.                                                       *)

\* upload_map copies the file, then inserts the row; delete_map leaves the file.
UploadBegins(m) ==
    /\ At("gui", "idle") /\ disk[m] = "none"
    /\ disk' = [disk EXCEPT ![m] = "partial"]
    /\ work' = [work EXCEPT !["gui"] = [step |-> "copying", map |-> m]]
    /\ UNCHANGED <<active, db, shelf, clock, made, given, retaken, torn>>

UploadCopies ==
    /\ At("gui", "copying") /\ disk[work["gui"].map] = "partial"
    /\ disk' = [disk EXCEPT ![work["gui"].map] = "whole"]
    /\ UNCHANGED <<active, db, shelf, clock, work, made, given, retaken, torn>>

UploadInserts ==
    /\ At("gui", "copying") /\ disk[work["gui"].map] = "whole"
    /\ db' = [db EXCEPT !.maps = @ \union {work["gui"].map}]
    /\ EndCall("gui")
    /\ UNCHANGED <<active, disk, shelf, clock, made, given, retaken, torn>>

\* What was copied stays.
UploadFails ==
    /\ At("gui", "copying") /\ EndCall("gui")
    /\ UNCHANGED <<active, db, disk, shelf, clock, made, given, retaken, torn>>

DeleteMap(m) ==
    /\ At("gui", "idle") /\ m \in db.maps
    /\ db' = [db EXCEPT !.maps = @ \ {m}]
    /\ UNCHANGED <<active, disk, shelf, clock, work, made, given, retaken, torn>>

\* The program ends anywhere and is started again, which migrates the database.
ProgramRestarts ==
    /\ active' = {} /\ work' = [a \in Actors |-> Idle]
    /\ db' = [db EXCEPT !.schema = Current]
    /\ UNCHANGED <<disk, shelf, clock, made, given, retaken, torn>>

\* The program is installed anew, with the packages and nothing else of what there
\* was; a name is not drawn again.  (Bound: while there is a file to lose and a restore
\* can follow.)
FreshInstallation ==
    /\ work = [a \in Actors |-> Idle] /\ made < MaxMade
    /\ \E m \in Maps : disk[m] \in {"partial", "whole"}
    /\ db' = EmptyDatabase
    /\ disk' = [m \in Maps |-> IF disk[m] = "none" THEN "none" ELSE "lost"]
    /\ UNCHANGED <<active, shelf, clock, work, made, given, retaken, torn>>

BuildPackage(a) == \/ ListFiles(a) \/ WritePackage(a) \/ WriteFails(a)
                   \/ RecordPackage(a) \/ SelectVictims(a) \/ Unlink(a) \/ PurgeEnds(a)

RestorePackage == \/ \E p \in shelf : RestoreBegins(p.at)
                  \/ StagePackage \/ ReplaceFiles

Surroundings == \/ \E m \in Maps : UploadBegins(m) \/ DeleteMap(m)
                \/ UploadCopies \/ UploadInserts \/ UploadFails
                \/ ProgramRestarts \/ FreshInstallation

ShelfNext == \/ \E keep \in Keeps, dir \in Dirs : SaveSettings(keep, dir)
             \/ \E dir \in Dirs : create_manual_backup(dir)
             \/ ScheduledReads \/ ScheduledAsks
             \/ \E a \in Actors : BuildPackage(a)
             \/ RestorePackage \/ Surroundings

ShelfSpec == ShelfInit /\ [][ShelfNext]_shelfVars
-----------------------------------------------------------------------------
(* Retention purges a package only while a newer one of its kind that can  *)
(* be restored is on the shelf: whatever was restored meanwhile, and with  *)
(* it other records and other settings, whichever directory the packages   *)
(* went to, and whichever backup failed half way.  Except that a name may  *)
(* be handed out twice within a second, and the older record then stands   *)
(* for the newer file.                                                     *)
NewestStays ==
    [][\A p \in shelf :
           \/ \E q \in shelf' : q.at = p.at
           \/ retaken
           \/ \E q \in shelf' : q.type = p.type /\ q.nth > p.nth /\ Valid(q, Current)]_shelfVars

(* After every restore, of a package built while maps came and went, the   *)
(* rows of maps have their whole files, in an empty data directory too: the *)
(* database is copied before the files are listed, and no file of a map is *)
(* ever removed.  Except that two backups that overlap share one lock, so   *)
(* that a restore may put older files between the copy and the list of the *)
(* one still at work.                                                      *)
RestoredMapsHaveFiles == torn \/ \A m \in db.maps : disk[m] = "whole"
=============================================================================

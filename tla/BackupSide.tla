------------------------------ MODULE BackupSide -------------------------------
(***************************************************************************)
(* The whole of backup and restore: the schedule, the pause, the locks and *)
(* the replacement file by file (BackupRestore), and the packages on the   *)
(* shelf with their records (BackupShelf).  Both take the runtime locks;   *)
(* a behaviour follows one of them, the other stays as it began.           *)
(***************************************************************************)
EXTENDS BackupRestore, BackupShelf

VARIABLE side
locksOnly == <<ui, step, scheduleVars, dataVars, overlapped>>
shelfOnly == <<db, disk, shelf, clock, work, made, given, retaken, torn>>
sideVars == <<side, active, locksOnly, shelfOnly>>

SideInit == /\ Init /\ ShelfInit
            /\ \/ side = "schedule" /\ made = 0
               \/ side = "shelf"

ScheduleSide == side = "schedule" /\ Next /\ UNCHANGED <<side, shelfOnly>>
ShelfSide == side = "shelf" /\ ShelfNext /\ UNCHANGED <<side, locksOnly>>

SideSpec == SideInit /\ [][ScheduleSide \/ ShelfSide]_sideVars

\* The threads of module BackupRestore carry on what they have begun.
FairSideSpec == SideSpec /\ Fairness
=============================================================================

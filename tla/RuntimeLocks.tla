---------------------------- MODULE RuntimeLocks ----------------------------
(***************************************************************************)
(* RuntimeLockManager (core/runtime_locks.py): the maintenance locks that  *)
(* keep acquisition and backup apart from restore and migration.  Every    *)
(* method runs under one condition variable, so each is a single step; all *)
(* the callers of this program pass timeout=0 and are refused at once.     *)
(***************************************************************************)
EXTENDS FiniteSets

VARIABLE active     \* RuntimeLockManager._active, a set of names, not of holders

Operations == {"acquisition", "backup", "restore", "migration"}

CONFLICTS == [acquisition |-> {"restore", "migration"},
              backup      |-> {"restore", "migration"},
              restore     |-> {"acquisition", "backup", "migration"},
              migration   |-> {"acquisition", "backup", "restore"}]

HasConflict(op) == active \cap CONFLICTS[op] # {}

\* acquire_operation(op, timeout=0) when it succeeds.
Acquire(op) == ~ HasConflict(op) /\ active' = active \union {op}

\* release_operation: discard, whoever else asked for the same name.
Release(op) == active' = active \ {op}

\* No two conflicting operations are ever active together.
Exclusive == \A a, b \in active : b \notin CONFLICTS[a]
=============================================================================

-------------------------- MODULE MCBackupRestore --------------------------
(* Small instances of BackupRestore and BackupShelf for TLC. *)
EXTENDS BackupSide

CONSTANTS j1, j2, j3

\* A package of an older schema, without maps, that was brought from elsewhere.
NoMaps == [m \in Maps |-> "none"]
OlderPackage ==
    {[at |-> [dir |-> Root, prefix |-> "foreign", sec |-> 0, n |-> 0], type |-> "foreign", nth |-> 0,
      parses |-> TRUE, schema |-> 0, listed |-> NoMaps, stored |-> NoMaps,
      snap |-> [rows |-> {}, keep |-> 2, dir |-> Root, maps |-> {}, schema |-> 0]]}
=============================================================================

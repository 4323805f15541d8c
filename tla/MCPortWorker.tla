---------------------------- MODULE MCPortWorker ----------------------------
(* Small instances of PortWorker for TLC. *)
EXTENDS PortWorker

\* Two probes, each with a Modbus address of its own.
OwnUnits == [d \in 1..N |-> d]

\* Devices that may do anything with a database that works; devices that may
\* fall silent with one that may not.
TwoSetups == {[modes |-> Modes, dbMayFail |-> FALSE],
              [modes |-> {"ok", "silent"}, dbMayFail |-> TRUE]}
=============================================================================

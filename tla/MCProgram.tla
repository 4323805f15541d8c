----------------------------- MODULE MCProgram -----------------------------
(* A small instance of Program for TLC: two ports, and a thread to spare. *)
EXTENDS Program

MCPorts == {8765, 9000}
=============================================================================

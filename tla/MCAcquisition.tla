--------------------------- MODULE MCAcquisition ---------------------------
(* Small instances of Acquisition for TLC. *)
EXTENDS Acquisition

CONSTANTS p1, p2

\* Two threads for two ports and workers that behave; one thread, and nothing
\* to be relied on.
TwoSetups == {[pool |-> 2, slow |-> FALSE, fails |-> FALSE],
              [pool |-> 1, slow |-> TRUE, fails |-> TRUE]}
=============================================================================

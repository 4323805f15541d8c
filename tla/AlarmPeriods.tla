---------------------------- MODULE AlarmPeriods ----------------------------
(***************************************************************************)
(* What alarm ingestion promises, with no rows, transactions or linkage:   *)
(* every detector has one current condition, a submitted batch of readings *)
(* takes effect as a whole or not at all, and the last meaningful reading  *)
(* of a detector in the batch decides its condition.  An administrator may *)
(* also erase alarm records, which forgets the condition of a detector.    *)
(***************************************************************************)
EXTENDS Naturals, Sequences

CONSTANTS Detectors,    \* the detectors
          Conditions,   \* every status a reading can have, Invalid included
          Normal,       \* the status that ends an alarm period
          Invalid,      \* the status that says nothing about the detector
          Batches,      \* the batches a poll cycle may submit
          NoBatch       \* no batch is being processed

VARIABLES current,      \* current[d]: the type of d's active alarm, or Normal
          pending       \* the batch being processed, or NoBatch

vars == <<current, pending>>

\* The positions of batch b that decide something about detector d.
Telling(b, d) == {i \in DOMAIN b : b[i].det = d /\ b[i].status # Invalid}

\* The condition of d once the whole of batch b has been taken in.
After(b, d) ==
    IF Telling(b, d) = {}
    THEN current[d]
    ELSE b[CHOOSE i \in Telling(b, d) : \A j \in Telling(b, d) : j <= i].status

Init == /\ current = [d \in Detectors |-> Normal]
        /\ pending = NoBatch

Submit == /\ pending = NoBatch
          /\ pending' \in Batches
          /\ UNCHANGED current

Accept == /\ pending # NoBatch
          /\ current' = [d \in Detectors |-> After(pending, d)]
          /\ pending' = NoBatch

Abandon == /\ pending # NoBatch
           /\ pending' = NoBatch
           /\ UNCHANGED current

Erase == /\ pending = NoBatch
         /\ \E D \in SUBSET Detectors :
               current' = [d \in Detectors |-> IF d \in D THEN Normal ELSE current[d]]
         /\ UNCHANGED pending

Next == Submit \/ Accept \/ Abandon \/ Erase

Spec == Init /\ [][Next]_vars
=============================================================================

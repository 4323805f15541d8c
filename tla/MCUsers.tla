------------------------------ MODULE MCUsers ------------------------------
(* Model checking of Users and AccountPages: two rows, two names, two      *)
(* passwords.                                                              *)
EXTENDS AccountPages, TLC

Symmetry == Permutations(Sids)
=============================================================================

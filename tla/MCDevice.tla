------------------------------ MODULE MCDevice ------------------------------
(***************************************************************************)
(* A device small enough to be checked: three releases, two faults, two    *)
(* networks.  The search for a network counts in units of 10 s, its probe  *)
(* of 5 s rounded up.                                                      *)
(***************************************************************************)
EXTENDS Device

=============================================================================

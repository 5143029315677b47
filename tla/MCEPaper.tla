------------------------------ MODULE MCEPaper ------------------------------
(***************************************************************************)
(* The e-paper display alone.  The real intervals in units of two hours,   *)
(* the short ones rounded up: 12 h for a quiet or retired display, 4 h     *)
(* after failures, a sweep of the panel every 24 h.                        *)
(***************************************************************************)
EXTENDS EPaper

=============================================================================

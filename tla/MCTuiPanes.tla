------------------------------ MODULE MCTuiPanes ------------------------------
(* TuiPanes for TLC.                                                       *)
EXTENDS TuiPanes
=============================================================================

---------------------------- MODULE MCDebugScreen ----------------------------
(***************************************************************************)
(* DebugScreen for TLC.  With five columns a tab fits at the start of a    *)
(* line only; two rows let text come round to a line that was written.     *)
(***************************************************************************)
EXTENDS DebugScreen
=============================================================================

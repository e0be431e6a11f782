---------------------------- MODULE MCLogHandlers ----------------------------
(***************************************************************************)
(* LogHandlers for TLC.  Three slots leave a hole below, between and above *)
(* used ones; two clients fill them, one of them twice, with and without   *)
(* flush functions.                                                        *)
(***************************************************************************)
EXTENDS LogHandlers
=============================================================================

----------------------------- MODULE MCCallbacks -----------------------------
(***************************************************************************)
(* Callbacks for TLC.  Two set-ups let the second one meet what the first  *)
(* has left: the flag, the identifiers, the thread and the callback; with  *)
(* the third, a set-up also follows one that did not wait for its thread.  *)
(***************************************************************************)
EXTENDS Callbacks
=============================================================================

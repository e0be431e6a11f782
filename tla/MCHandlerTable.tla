---------------------------- MODULE MCHandlerTable ----------------------------
(***************************************************************************)
(* HandlerTable for TLC.  Two modules' threads race with each other and    *)
(* with the events thread.  Two slots and three registrations make the     *)
(* table fill up, leave holes and hold the default handler at either index.*)
(***************************************************************************)
EXTENDS HandlerTable
=============================================================================

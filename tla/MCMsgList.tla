------------------------------ MODULE MCMsgList ------------------------------
(***************************************************************************)
(* MsgList for TLC.  Three blocks are enough for a block before, at and    *)
(* behind the message being flushed; two contents tell the order of        *)
(* messages apart because the queue does not look at them.                 *)
(***************************************************************************)
EXTENDS MsgList
=============================================================================

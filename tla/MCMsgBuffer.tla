----------------------------- MODULE MCMsgBuffer -----------------------------
(***************************************************************************)
(* MsgBuffer for TLC.  Three slots put handlers in front of, at both sides *)
(* of and behind the default handler; texts of one and two characters do,  *)
(* because the room for changes is 16 bytes whatever a text's length is,   *)
(* and handlers leave every length that fits the size they are told.       *)
(***************************************************************************)
EXTENDS MsgBuffer
=============================================================================

------------------------------ MODULE MCKprintf ------------------------------
(***************************************************************************)
(* Kprintf for TLC.  Two blocks make the pool overflow and let a message   *)
(* arrive behind the one being flushed; two slots let a client fill the    *)
(* table before the default handler is registered, and let a message go to *)
(* two handlers; one client races with the events thread for the           *)
(* semaphore.                                                              *)
(***************************************************************************)
EXTENDS Kprintf
=============================================================================

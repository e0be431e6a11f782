------------------------------- MODULE MsgFifo -------------------------------
(***************************************************************************)
(* What the message queue of libkprintf promises to the two sides that     *)
(* share it: the Kprintf handler, which accepts a formatted message or     *)
(* drops it, and the events thread, which passes accepted messages to the  *)
(* sub-handlers.  Accepted messages are passed on in the order they were   *)
(* accepted, each one once, and a message stays in the queue while the     *)
(* sub-handlers run on it.  A dropped message is a stuttering step.        *)
(***************************************************************************)
EXTENDS Naturals, Sequences

CONSTANTS
    Body,     \* contents of a message
    NoMsg,    \* no message is being passed to the sub-handlers
    Capacity  \* how many messages the pool can hold at most

VARIABLES
    queue,    \* accepted messages that are not yet removed, oldest first
    current   \* the message the sub-handlers are working on, or NoMsg

fifoVars == <<queue, current>>

FifoInit ==
    /\ queue = <<>>
    /\ current = NoMsg

Accept(b) ==
    /\ Len(queue) < Capacity
    /\ queue' = Append(queue, b)
    /\ UNCHANGED current

Deliver ==
    /\ current = NoMsg
    /\ queue # <<>>
    /\ current' = Head(queue)
    /\ UNCHANGED queue

Finish ==
    /\ current # NoMsg
    /\ queue' = Tail(queue)
    /\ current' = NoMsg

FifoNext == (\E b \in Body : Accept(b)) \/ Deliver \/ Finish

FifoSpec ==
    /\ FifoInit /\ [][FifoNext]_fifoVars
    /\ WF_fifoVars(Deliver) /\ WF_fifoVars(Finish)
=============================================================================

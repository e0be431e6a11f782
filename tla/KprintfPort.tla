------------------------------ MODULE KprintfPort ------------------------------
(***************************************************************************)
(* What libkprintf promises to those who print and to the loader that      *)
(* starts and stops it.                                                    *)
(*                                                                         *)
(*  - Messages are accepted only between the end of init and the change of *)
(*    state in _stop, and passed on in order by whoever works behind the   *)
(*    port (the events thread).                                            *)
(*  - Once the port is closed the worker finishes what was accepted.  It   *)
(*    stops working with nothing in hand and nothing left in the queue;    *)
(*    only when its last attempt to get at the queue failed it leaves the  *)
(*    queue as it is.                                                      *)
(*  - _stop's answer comes when the work is finished, and nothing is       *)
(*    passed on after that.  A stop that was given up promises nothing.    *)
(*  - An init that fails has accepted nothing.                             *)
(***************************************************************************)
EXTENDS MsgFifo

CONSTANT MayFail  \* the worker's attempt to get at the queue may fail

VARIABLES
    phase,   \* what the library is ready for
    missed,  \* the worker's last attempt to get at the queue failed
    stop     \* what the loader knows of its request to stop

Phase == {"starting", "failed", "open", "closed", "finished"}
Stop  == {"none", "answered", "abandoned"}

portVars == <<queue, current, phase, missed, stop>>

PortInit ==
    /\ FifoInit
    /\ phase = "starting"
    /\ missed = FALSE
    /\ stop = "none"

Become(from, to) ==
    /\ phase = from
    /\ phase' = to
    /\ UNCHANGED <<queue, current, missed, stop>>

Open  == Become("starting", "open")
Fail  == Become("starting", "failed") /\ queue = <<>>
Close == Become("open", "closed")

\* The attempt to get at the queue for the last time fails.
Miss ==
    /\ MayFail
    /\ phase = "closed"
    /\ current = NoMsg
    /\ ~missed /\ missed' = TRUE
    /\ UNCHANGED <<queue, current, phase, stop>>

\* The worker stops working.
WorkEnds ==
    /\ Become("closed", "finished")
    /\ current = NoMsg
    /\ queue = <<>> \/ missed

PortAccepts(b) ==
    /\ phase = "open"
    /\ Accept(b)
    /\ UNCHANGED <<phase, missed, stop>>

PortPasses ==
    /\ phase \in {"open", "closed"}
    /\ ~missed
    /\ Deliver \/ Finish
    /\ UNCHANGED <<phase, missed, stop>>

Answer ==
    /\ phase = "finished"
    /\ stop = "none"
    /\ stop' = "answered"
    /\ UNCHANGED <<queue, current, phase, missed>>

GiveUp ==
    /\ phase \in {"closed", "finished"}
    /\ stop = "none"
    /\ stop' = "abandoned"
    /\ UNCHANGED <<queue, current, phase, missed>>

PortNext ==
    \/ Open \/ Fail \/ Close \/ Miss \/ WorkEnds
    \/ (\E b \in Body : PortAccepts(b)) \/ PortPasses
    \/ Answer \/ GiveUp

PortSpec == PortInit /\ [][PortNext]_portVars
=============================================================================

---------------------------- MODULE KprintfService ----------------------------
(***************************************************************************)
(* What libkprintf promises to the modules that register handlers: the     *)
(* queue and the registry put together.  When a message's turn comes, the  *)
(* table stays as it is until the message is removed; it is shown once, to *)
(* all the handlers of the table, and it is removed only after that.       *)
(* Meanwhile further messages are accepted, also from inside a handler.    *)
(***************************************************************************)
EXTENDS MsgFifo, HandlerRegistry

VARIABLE shown  \* the current message has been shown to the handlers

serviceVars == <<queue, current, table, visiting, inside, running, shown>>

ServiceInit == FifoInit /\ RegistryInit /\ shown = FALSE

Accepted ==
    /\ \E b \in Body : Accept(b)
    /\ UNCHANGED <<registryVars, shown>>

TableChanges ==
    /\ current = NoMsg
    /\ \E i \in Slots : (\E reg \in Registration : Add(i, reg)) \/ Remove(i)
    /\ UNCHANGED <<fifoVars, shown>>

TurnComes ==
    /\ ~shown
    /\ Deliver
    /\ UNCHANGED <<registryVars, shown>>

ShowIt ==
    /\ current # NoMsg
    /\ ~shown
    /\ Show
    /\ shown' = TRUE
    /\ UNCHANGED fifoVars

HandlersRun ==
    /\ current # NoMsg
    /\ (\E i \in Slots : Run(i)) \/ Return \/ Leave
    /\ UNCHANGED <<fifoVars, shown>>

RemoveIt ==
    /\ shown
    /\ ~inside
    /\ Finish
    /\ shown' = FALSE
    /\ UNCHANGED registryVars

ServiceNext == Accepted \/ TableChanges \/ TurnComes \/ ShowIt \/ HandlersRun \/ RemoveIt

ServiceSpec == ServiceInit /\ [][ServiceNext]_serviceVars
=============================================================================

--------------------------- MODULE HandlerRegistry ---------------------------
(***************************************************************************)
(* What the sub-handler registry of libkprintf promises.  A handler is     *)
(* added to a free index, or removed from its index, in one step, and only *)
(* between messages.  A message is shown to the handlers that are          *)
(* registered when its turn comes, each one once and in index order, until *)
(* one of them stops it.                                                   *)
(***************************************************************************)
EXTENDS Naturals

CONSTANTS
    MaxHandlers,
    Registration,  \* a callback with its argument
    Empty          \* marks a free index, and "no handler is running"

VARIABLES
    table,     \* the registration at every index
    visiting,  \* indices that the message still has to be shown to
    inside,    \* the message is with the handlers
    running    \* the registration whose callback is executing, or Empty

registryVars == <<table, visiting, inside, running>>

Slots == 0 .. MaxHandlers - 1

RegistryInit ==
    /\ table = [i \in Slots |-> Empty]
    /\ visiting = {}
    /\ inside = FALSE
    /\ running = Empty

Add(i, reg) ==
    /\ ~inside
    /\ table[i] = Empty
    /\ table' = [table EXCEPT ![i] = reg]
    /\ UNCHANGED <<visiting, inside, running>>

Remove(i) ==
    /\ ~inside
    /\ table[i] # Empty
    /\ table' = [table EXCEPT ![i] = Empty]
    /\ UNCHANGED <<visiting, inside, running>>

Show ==
    /\ ~inside
    /\ inside' = TRUE
    /\ visiting' = {i \in Slots : table[i] # Empty}
    /\ UNCHANGED <<table, running>>

Run(i) ==
    /\ inside
    /\ running = Empty
    /\ i \in visiting
    /\ \A j \in visiting : i <= j
    /\ running' = table[i]
    /\ visiting' = visiting \ {i}
    /\ UNCHANGED <<table, inside>>

Return ==
    /\ running # Empty
    /\ running' = Empty
    /\ visiting' \in {visiting, {}}
    /\ UNCHANGED <<table, inside>>

Leave ==
    /\ inside
    /\ running = Empty
    /\ visiting = {}
    /\ inside' = FALSE
    /\ UNCHANGED <<table, visiting, running>>

RegistryNext ==
    \/ \E i \in Slots :
          (\E reg \in Registration : Add(i, reg)) \/ Remove(i) \/ Run(i)
    \/ Show \/ Return \/ Leave

RegistrySpec == RegistryInit /\ [][RegistryNext]_registryVars
=============================================================================

----------------------------- MODULE LogHandlers -----------------------------
(***************************************************************************)
(* src/libs/psp/util/log.c: a table of log handlers, without a lock, for   *)
(* one thread.  What can come between two steps of the loops of log_printf *)
(* and log_flush are the handlers they call, which may register and        *)
(* unregister handlers themselves.                                         *)
(*                                                                         *)
(* A client stands for a callback and for the argument that belongs to it; *)
(* its flush function is optional.  Formatting is left out: a text that is *)
(* empty or too long makes log_printf return before the loop.              *)
(***************************************************************************)
EXTENDS Integers, FiniteSets

CONSTANTS
    LogMaxHandlers,  \* LOG_MAX_HANDLERS
    Client,          \* who registers
    NULL             \* a null pointer, and "nobody is called"

ASSUME LogAssumption ==
    /\ LogMaxHandlers \in Nat \ {0}
    /\ NULL \notin Client

VARIABLES
    g_handlers,
    g_handler_count,
    op,     \* the loop that runs: "none", "print" or "flush"
    i,      \* its variable
    call,   \* function and argument that the loop is calling, or NULL twice
    owed,   \* ghost: slots in use since the loop began and not yet called
    dense   \* ghost: there was no free slot below a used one since it began

logVars == <<g_handlers, g_handler_count, op, i, call, owed, dense>>

Index == 0 .. LogMaxHandlers - 1
Pointer == Client \cup {NULL}
Handler == [cb : Pointer, flush : Pointer, arg : Pointer]
NoCall == [func |-> NULL, arg |-> NULL]

Used == {k \in Index : g_handlers[k].cb # NULL}
IsDense == Used = 0 .. g_handler_count - 1

LogTypeOK ==
    /\ g_handlers \in [Index -> Handler]
    /\ g_handler_count \in 0 .. LogMaxHandlers
    /\ op \in {"none", "print", "flush"}
    /\ i \in 0 .. LogMaxHandlers
    /\ call \in [func : Pointer, arg : Pointer]
    /\ owed \subseteq Index
    /\ dense \in BOOLEAN

LogInit ==
    /\ g_handlers = [k \in Index |-> [cb |-> NULL, flush |-> NULL, arg |-> NULL]]
    /\ g_handler_count = 0
    /\ op = "none"
    /\ i = 0
    /\ call = NoCall
    /\ owed = {}
    /\ dense = TRUE

\* The caller's own code runs, or that of a handler.
Outside == op = "none" \/ call # NoCall

-----------------------------------------------------------------------------
\* find_free_handler_index
FirstFree(k) == k \notin Used /\ \A j \in Index \ Used : k <= j

\* Mutant of Register: a NULL flush function leaves the slot's old one.
RegisterKeepsFlush(c, flush) ==
    /\ Outside
    /\ g_handler_count < LogMaxHandlers
    /\ \E k \in Index :
          /\ FirstFree(k)
          /\ g_handlers' = [g_handlers EXCEPT ![k] =
                [cb |-> c, flush |-> IF flush = NULL THEN @.flush ELSE flush, arg |-> c]]
    /\ g_handler_count' = g_handler_count + 1
    /\ dense' = (dense /\ IsDense')
    /\ UNCHANGED <<op, i, call, owed>>

\* Mutant of Register: the handler is put into the slot that the count names.
RegisterAtCount(c, flush) ==
    /\ Outside
    /\ g_handler_count < LogMaxHandlers
    /\ g_handlers' = [g_handlers EXCEPT ![g_handler_count] = [cb |-> c, flush |-> flush, arg |-> c]]
    /\ g_handler_count' = g_handler_count + 1
    /\ dense' = (dense /\ IsDense')
    /\ UNCHANGED <<op, i, call, owed>>

\* log_register_handler, of a client that has a flush function or not
Register(c, flush) ==
    /\ Outside
    /\ g_handler_count < LogMaxHandlers
    /\ \E k \in Index :
          /\ FirstFree(k)
          /\ g_handlers' = [g_handlers EXCEPT ![k] = [cb |-> c, flush |-> flush, arg |-> c]]
    /\ g_handler_count' = g_handler_count + 1
    /\ dense' = (dense /\ IsDense')
    /\ UNCHANGED <<op, i, call, owed>>

\* Mutant of Unregister: a free slot is not refused.
UnregisterFree(k) ==
    /\ Outside
    /\ g_handlers' = [g_handlers EXCEPT ![k].cb = NULL, ![k].arg = NULL]
    /\ g_handler_count' = g_handler_count - 1
    /\ owed' = owed \ {k}
    /\ dense' = (dense /\ IsDense')
    /\ UNCHANGED <<op, i, call>>

\* log_unregister_handler, which leaves the slot's flush function
Unregister(k) ==
    /\ Outside
    /\ k \in Used
    /\ g_handlers' = [g_handlers EXCEPT ![k].cb = NULL, ![k].arg = NULL]
    /\ g_handler_count' = g_handler_count - 1
    /\ owed' = owed \ {k}
    /\ dense' = (dense /\ IsDense')
    /\ UNCHANGED <<op, i, call>>

-----------------------------------------------------------------------------
Begin(o) ==
    /\ op = "none"
    /\ op' = o
    /\ i' = 0
    /\ owed' = Used
    /\ dense' = IsDense
    /\ UNCHANGED <<g_handlers, g_handler_count, call>>

\* log_printf, with a text that fits, and log_flush
PrintBegin == g_handler_count > 0 /\ Begin("print")
FlushBegin == Begin("flush")

\* Slot i's function is called with slot i's argument.
Calls(func) ==
    /\ func # NULL
    /\ call' = [func |-> func, arg |-> g_handlers[i].arg]
    /\ owed' = owed \ {i}
    /\ UNCHANGED <<g_handlers, g_handler_count, op, i, dense>>

Skips(func) ==
    /\ func = NULL
    /\ i' = i + 1
    /\ UNCHANGED <<g_handlers, g_handler_count, op, call, owed, dense>>

PrintStep ==
    /\ op = "print" /\ call = NoCall /\ i < LogMaxHandlers
    /\ Calls(g_handlers[i].cb) \/ Skips(g_handlers[i].cb)

\* i < g_handler_count, read anew in every round
FlushStep ==
    /\ op = "flush" /\ call = NoCall /\ i < g_handler_count
    /\ Calls(g_handlers[i].flush) \/ Skips(g_handlers[i].flush)

\* Mutant of Returns: a handler is called as long as its slot is in use.
ReturnsToSlot ==
    /\ call # NoCall
    /\ call' = NoCall
    /\ i' = IF i \in Used THEN i ELSE i + 1
    /\ UNCHANGED <<g_handlers, g_handler_count, op, owed, dense>>

Returns ==
    /\ call # NoCall
    /\ call' = NoCall
    /\ i' = i + 1
    /\ UNCHANGED <<g_handlers, g_handler_count, op, owed, dense>>

\* Mutant of AtEnd: the loop of log_printf runs over the count, as in log_flush.
AtEndOverCount ==
    /\ op # "none" /\ call = NoCall
    /\ i >= g_handler_count

\* Mutant of AtEnd: log_flush leaves the last handler out.
AtEndShort ==
    /\ op # "none" /\ call = NoCall
    /\ i >= IF op = "print" THEN LogMaxHandlers ELSE g_handler_count - 1

AtEnd ==
    /\ op # "none" /\ call = NoCall
    /\ i >= IF op = "print" THEN LogMaxHandlers ELSE g_handler_count

End ==
    /\ AtEnd
    /\ op' = "none"
    /\ i' = 0
    /\ owed' = {}
    /\ dense' = TRUE
    /\ UNCHANGED <<g_handlers, g_handler_count, call>>

LogNext ==
    \/ \E c \in Client : \E flush \in {c, NULL} : Register(c, flush)
    \/ \E k \in Index : Unregister(k)
    \/ PrintBegin \/ FlushBegin
    \/ PrintStep \/ FlushStep
    \/ Returns
    \/ End

LogSpec == LogInit /\ [][LogNext]_logVars /\ WF_logVars(PrintStep \/ FlushStep \/ Returns \/ End)
-----------------------------------------------------------------------------
\* g_handler_count is the number of used slots, so a registration that passes
\* the test of the count finds a free slot, and log_printf drops no message
\* while a handler is registered.
CountMatches == g_handler_count = Cardinality(Used)

\* When the loop of log_printf ends every handler that was registered all along
\* has got the message, whatever the others registered and unregistered.
PrintReaches == AtEnd /\ op = "print" => owed = {}

\* The same for the flush functions, although log_flush runs over the number of
\* handlers and not over the slots: as long as no handler below another one is
\* unregistered.
FlushReaches == AtEnd /\ op = "flush" /\ dense => \A k \in owed : g_handlers[k].flush = NULL

\* A callback and a flush function are called with the argument they were
\* registered with, also in a slot that had another flush function before.  The one
\* exception: log_flush may reach a free slot when there has been a hole in the table,
\* and calls the flush function that was left there, with a null argument.
OwnArgument ==
    call # NoCall =>
        \/ call.func = call.arg
        \/ op = "flush" /\ ~dense /\ call.arg = NULL

\* Both loops end, although handlers change the count that log_flush runs to.
LoopsEnd == op # "none" ~> op = "none"
=============================================================================

----------------------------- MODULE HandlerTable -----------------------------
(***************************************************************************)
(* handler.c: the table of sub-handlers, and its three users.              *)
(*                                                                         *)
(*  - Threads of other modules call kprintf_register_handler,              *)
(*    kprintf_register_default_handler and kprintf_unregister_handler.     *)
(*  - The events thread shows every message to the handlers.               *)
(*  - A handler runs on the events thread and may call the API itself,     *)
(*    when CallbackApi is TRUE.                                            *)
(*                                                                         *)
(* All of them read and write the table between sceKernelWaitSema and      *)
(* sceKernelSignalSema on g_semid, one shared access a step.  A call that  *)
(* is refused before the semaphore is reached changes nothing, so it is no *)
(* step: the guards of RegisterCall and UnregisterCall are the conditions  *)
(* under which a call gets that far.                                       *)
(***************************************************************************)
EXTENDS Integers, FiniteSets

CONSTANTS
    Thread,       \* threads that call the API
    EvThread,     \* the events thread
    MaxHandlers,  \* KPRINTF_MAX_HANDLERS
    Callback,     \* callbacks of other modules
    Arg,          \* their arguments
    DefaultCb,    \* default_file_handler
    Stdout,       \* its argument, g_stdout
    NoCb,         \* kprintf_reghandler_t.cb is NULL
    NoArg,        \* kprintf_reghandler_t.arg is 0
    CallbackApi,  \* handlers call the API
    SemaMayFail   \* a thread's wait for the semaphore may be released by an error

ASSUME TableAssumption ==
    /\ EvThread \in Thread
    /\ MaxHandlers \in Nat \ {0}
    /\ DefaultCb \notin Callback \cup {NoCb}
    /\ NoCb \notin Callback
    /\ CallbackApi \in BOOLEAN
    /\ SemaMayFail \in BOOLEAN

VARIABLES
    g_state,                  \* STATE_*
    g_handlers,               \* the table
    g_handler_count,
    g_default_handler_index,
    semcount,                 \* count of the semaphore g_semid
    pc,                       \* where a thread is in an API call
    req,                      \* cb and arg of the thread's call
    index,                    \* its index, an argument or a local variable
    ret,                      \* its result
    ipc,                      \* where the events thread is in invoke_handlers
    slot,                     \* invoke_handlers's i
    running                   \* cb and arg that invoke_handlers called

tableVars  == <<g_handlers, g_handler_count, g_default_handler_index>>
callVars   == <<pc, req, index, ret>>
invokeVars == <<ipc, slot, running>>
handlerVars == <<g_state, tableVars, semcount, callVars, invokeVars>>

State == {"STARTING", "STARTED", "STOPPED"}
Index == 0 .. MaxHandlers - 1
Free  == [cb |-> NoCb, arg |-> NoArg]

AnyCb  == Callback \cup {DefaultCb}
AnyArg == Arg \cup {Stdout}
Slot   == [cb : AnyCb \cup {NoCb}, arg : AnyArg \cup {NoArg}]

\* What a call can register: a module's own handler, or the default one.
Registration ==
    [cb : Callback, arg : Arg] \cup {[cb |-> DefaultCb, arg |-> Stdout]}

KPRINTF_ERR_INVALID_INDEX == -3
KPRINTF_ERR_MAX_HANDLERS  == -4
KPRINTF_ERR_NO_HANDLER    == -5

RegisterPc   == {"reg_find", "reg_cb", "reg_arg"}
UnregisterPc == {"unreg_check", "unreg_cb", "unreg_arg"}
LockedPc     == RegisterPc \cup UnregisterPc \cup {"signal"}
CallPc       == LockedPc \cup {"idle", "reg_wait", "unreg_wait", "announce"}
InvokePc     == {"idle", "held", "test", "call", "callback"}

TableTypeOK ==
    /\ g_state \in State
    /\ g_handlers \in [Index -> Slot]
    /\ g_handler_count \in 0 .. MaxHandlers
    /\ g_default_handler_index \in Index \cup {-1}
    /\ semcount \in {0, 1}
    /\ pc \in [Thread -> CallPc]
    /\ req \in [Thread -> Registration \cup {Free}]
    /\ index \in [Thread -> -1 .. MaxHandlers]
    /\ ret \in [Thread -> -5 .. MaxHandlers - 1]
    /\ ipc \in InvokePc
    /\ slot \in 0 .. MaxHandlers
    /\ running \in Slot

TableInit ==
    /\ g_state = "STARTING"
    /\ g_handlers = [i \in Index |-> Free]
    /\ g_handler_count = 0
    /\ g_default_handler_index = -1
    /\ semcount = 1
    /\ pc = [t \in Thread |-> "idle"]
    /\ req = [t \in Thread |-> Free]
    /\ index = [t \in Thread |-> -1]
    /\ ret = [t \in Thread |-> 0]
    /\ ipc = "idle"
    /\ slot = 0
    /\ running = Free

-----------------------------------------------------------------------------
(***************************************************************************)
(* API calls.                                                              *)
(***************************************************************************)
IsFree(i) == g_handlers[i].cb = NoCb

\* A thread makes one call at a time, and the events thread makes its calls
\* from a handler.
MayCall(t) ==
    /\ pc[t] = "idle"
    /\ t = EvThread => CallbackApi /\ ipc = "callback"

EnterRegister(t, reg) ==
    /\ g_state = "STARTED"
    /\ pc' = [pc EXCEPT ![t] = "reg_wait"]
    /\ req' = [req EXCEPT ![t] = reg]
    /\ UNCHANGED <<index, ret>>

EnterUnregister(t, i) ==
    /\ g_state = "STARTED"
    /\ pc' = [pc EXCEPT ![t] = "unreg_wait"]
    /\ index' = [index EXCEPT ![t] = i]
    /\ UNCHANGED <<req, ret>>

RegisterCall(t, reg) ==
    /\ MayCall(t)
    /\ EnterRegister(t, reg)
    /\ UNCHANGED <<g_state, tableVars, semcount, invokeVars>>

UnregisterCall(t, i) ==
    /\ MayCall(t)
    /\ EnterUnregister(t, i)
    /\ UNCHANGED <<g_state, tableVars, semcount, invokeVars>>

\* sceKernelWaitSema(g_semid, 1, NULL)
WaitSema ==
    /\ semcount = 1
    /\ semcount' = 0

Acquire(t) ==
    /\ WaitSema
    /\ \/ /\ pc[t] = "reg_wait"
          /\ pc' = [pc EXCEPT ![t] = "reg_find"]
       \/ /\ pc[t] = "unreg_wait"
          /\ pc' = [pc EXCEPT ![t] = "unreg_check"]
    /\ UNCHANGED <<g_state, tableVars, req, index, ret, invokeVars>>

Forget(t) ==
    /\ req' = [req EXCEPT ![t] = Free]
    /\ index' = [index EXCEPT ![t] = -1]
    /\ ret' = [ret EXCEPT ![t] = 0]

\* if (sret < 0) return sret
AcquireFails(t) ==
    /\ SemaMayFail
    /\ pc[t] \in {"reg_wait", "unreg_wait"}
    /\ pc' = [pc EXCEPT ![t] = "idle"]
    /\ Forget(t)
    /\ UNCHANGED <<g_state, tableVars, semcount, invokeVars>>

GoTo(t, label, result) ==
    /\ pc' = [pc EXCEPT ![t] = label]
    /\ ret' = [ret EXCEPT ![t] = result]

\* register_handler, from the test for the default handler to the assignment
\* of g_default_handler_index.

\* Mutant of AlreadyDefault: index 0 is taken for "none".
AlreadyDefaultNotFirst(t) == req[t].cb = DefaultCb /\ g_default_handler_index > 0

AlreadyDefault(t) == req[t].cb = DefaultCb /\ g_default_handler_index >= 0

\* Mutant of RegisterRefused: the error path returns without "goto end".
RegisterRefusedKeepsSema(t) ==
    /\ pc[t] = "reg_find"
    /\ ~AlreadyDefault(t)
    /\ g_handler_count >= MaxHandlers
    /\ pc' = [pc EXCEPT ![t] = "idle"]
    /\ Forget(t)
    /\ UNCHANGED <<g_state, tableVars, semcount, invokeVars>>

RegisterRefused(t) ==
    /\ pc[t] = "reg_find"
    /\ \/ /\ AlreadyDefault(t)
          /\ GoTo(t, "signal", g_default_handler_index)
       \/ /\ ~AlreadyDefault(t)
          /\ g_handler_count >= MaxHandlers \/ \A i \in Index : ~IsFree(i)
          /\ GoTo(t, "signal", KPRINTF_ERR_MAX_HANDLERS)
    /\ UNCHANGED <<g_state, tableVars, semcount, req, index, invokeVars>>

\* find_free_handler_index
FirstFree(i) == IsFree(i) /\ \A j \in Index : IsFree(j) => i <= j

RegisterFind(t) ==
    /\ pc[t] = "reg_find"
    /\ ~AlreadyDefault(t)
    /\ g_handler_count < MaxHandlers
    /\ \E i \in Index :
          /\ FirstFree(i)
          /\ index' = [index EXCEPT ![t] = i]
          /\ g_default_handler_index' =
                IF req[t].cb = DefaultCb THEN i ELSE g_default_handler_index
    /\ pc' = [pc EXCEPT ![t] = "reg_cb"]
    /\ UNCHANGED <<g_state, g_handlers, g_handler_count, semcount, req, ret, invokeVars>>

\* g_handlers[index].cb = cb
RegisterCb(t) ==
    /\ pc[t] = "reg_cb"
    /\ g_handlers' = [g_handlers EXCEPT ![index[t]].cb = req[t].cb]
    /\ pc' = [pc EXCEPT ![t] = "reg_arg"]
    /\ UNCHANGED <<g_state, g_handler_count, g_default_handler_index, semcount,
                   req, index, ret, invokeVars>>

\* g_handlers[index].arg = arg; g_handler_count++; ret = index

\* Mutant of RegisterArg: the count is not kept.
RegisterArgUncounted(t) ==
    /\ pc[t] = "reg_arg"
    /\ g_handlers' = [g_handlers EXCEPT ![index[t]].arg = req[t].arg]
    /\ GoTo(t, "signal", index[t])
    /\ UNCHANGED <<g_state, g_handler_count, g_default_handler_index, semcount, req,
                   index, invokeVars>>

RegisterArg(t) ==
    /\ pc[t] = "reg_arg"
    /\ g_handlers' = [g_handlers EXCEPT ![index[t]].arg = req[t].arg]
    /\ g_handler_count' = g_handler_count + 1
    /\ GoTo(t, "signal", index[t])
    /\ UNCHANGED <<g_state, g_default_handler_index, semcount, req, index, invokeVars>>

\* unregister_handler, the tests and the reset of the default index.

UnregisterRefused(t) ==
    /\ pc[t] = "unreg_check"
    /\ \/ /\ index[t] \notin Index
          /\ GoTo(t, "signal", KPRINTF_ERR_INVALID_INDEX)
       \/ /\ index[t] \in Index
          /\ IsFree(index[t])
          /\ GoTo(t, "signal", KPRINTF_ERR_NO_HANDLER)
    /\ UNCHANGED <<g_state, tableVars, semcount, req, index, invokeVars>>

\* Mutant of UnregisterCheck: the default index is not reset.
UnregisterCheckKeepsDefault(t) ==
    /\ pc[t] = "unreg_check"
    /\ index[t] \in Index
    /\ ~IsFree(index[t])
    /\ pc' = [pc EXCEPT ![t] = "unreg_cb"]
    /\ UNCHANGED <<g_state, tableVars, semcount, req, index, ret, invokeVars>>

UnregisterCheck(t) ==
    /\ pc[t] = "unreg_check"
    /\ index[t] \in Index
    /\ ~IsFree(index[t])
    /\ g_default_handler_index' =
          IF index[t] = g_default_handler_index THEN -1 ELSE g_default_handler_index
    /\ pc' = [pc EXCEPT ![t] = "unreg_cb"]
    /\ UNCHANGED <<g_state, g_handlers, g_handler_count, semcount, req, index, ret,
                   invokeVars>>

\* g_handlers[index].cb = NULL
UnregisterCb(t) ==
    /\ pc[t] = "unreg_cb"
    /\ g_handlers' = [g_handlers EXCEPT ![index[t]].cb = NoCb]
    /\ pc' = [pc EXCEPT ![t] = "unreg_arg"]
    /\ UNCHANGED <<g_state, g_handler_count, g_default_handler_index, semcount,
                   req, index, ret, invokeVars>>

\* g_handlers[index].arg = 0; g_handler_count--; ret = 0
UnregisterArg(t) ==
    /\ pc[t] = "unreg_arg"
    /\ g_handlers' = [g_handlers EXCEPT ![index[t]].arg = NoArg]
    /\ g_handler_count' = g_handler_count - 1
    /\ GoTo(t, "signal", 0)
    /\ UNCHANGED <<g_state, g_default_handler_index, semcount, req, index, invokeVars>>

(***************************************************************************)
(* sceKernelSignalSema(g_semid, 1), and the call returns.  When            *)
(* register_default_handler got index 0 it prints a message first.         *)
(***************************************************************************)
Signal(t) ==
    /\ pc[t] = "signal"
    /\ semcount' = semcount + 1
    /\ pc' = [pc EXCEPT ![t] =
                 IF req[t].cb = DefaultCb /\ ret[t] = 0 THEN "announce" ELSE "idle"]
    /\ Forget(t)
    /\ UNCHANGED <<g_state, tableVars, invokeVars>>

Announce(t) ==
    /\ pc[t] = "announce"
    /\ pc' = [pc EXCEPT ![t] = "idle"]
    /\ UNCHANGED <<g_state, tableVars, semcount, req, index, ret, invokeVars>>

ApiStep(t) ==
    \/ RegisterRefused(t)
    \/ RegisterFind(t)
    \/ RegisterCb(t)
    \/ RegisterArg(t)
    \/ UnregisterRefused(t)
    \/ UnregisterCheck(t)
    \/ UnregisterCb(t)
    \/ UnregisterArg(t)
    \/ Signal(t)

-----------------------------------------------------------------------------
(***************************************************************************)
(* The events thread: take the semaphore, show messages to the handlers,   *)
(* release the semaphore.                                                  *)
(***************************************************************************)
\* Mutant of FlushAcquire: flush_messages is called without the semaphore.
FlushAcquireUnlocked ==
    /\ ipc = "idle"
    /\ ipc' = "held"
    /\ UNCHANGED <<g_state, tableVars, semcount, callVars, slot, running>>

FlushAcquire ==
    /\ ipc = "idle"
    /\ WaitSema
    /\ ipc' = "held"
    /\ UNCHANGED <<g_state, tableVars, callVars, slot, running>>

\* for (i = 0; ...
InvokeBegin ==
    /\ ipc = "held"
    /\ ipc' = "test"
    /\ slot' = 0
    /\ UNCHANGED <<g_state, tableVars, semcount, callVars, running>>

\* if (g_handlers[i].cb != NULL)
InvokeTest ==
    /\ ipc = "test"
    /\ slot \in Index
    /\ ipc' = IF IsFree(slot) THEN "test" ELSE "call"
    /\ slot' = IF IsFree(slot) THEN slot + 1 ELSE slot
    /\ UNCHANGED <<g_state, tableVars, semcount, callVars, running>>

\* g_handlers[i].cb(g_handlers[i].arg, ...)
InvokeCall ==
    /\ ipc = "call"
    /\ ipc' = "callback"
    /\ running' = g_handlers[slot]
    /\ UNCHANGED <<g_state, tableVars, semcount, callVars, slot>>

\* KPRINTF_MSG_OK goes on with the next handler, KPRINTF_MSG_STOP breaks.
\* Mutant of CallbackReturns: i is not advanced.
CallbackReturnsAgain ==
    /\ ipc = "callback"
    /\ pc[EvThread] = "idle"
    /\ ipc' = "test"
    /\ slot' \in {slot, MaxHandlers}
    /\ running' = Free
    /\ UNCHANGED <<g_state, tableVars, semcount, callVars>>

CallbackReturns ==
    /\ ipc = "callback"
    /\ pc[EvThread] = "idle"
    /\ ipc' = "test"
    /\ slot' \in {slot + 1, MaxHandlers}
    /\ running' = Free
    /\ UNCHANGED <<g_state, tableVars, semcount, callVars>>

InvokeEnd ==
    /\ ipc = "test"
    /\ slot = MaxHandlers
    /\ ipc' = "held"
    /\ slot' = 0
    /\ UNCHANGED <<g_state, tableVars, semcount, callVars, running>>

FlushRelease ==
    /\ ipc = "held"
    /\ semcount' = semcount + 1
    /\ ipc' = "idle"
    /\ UNCHANGED <<g_state, tableVars, callVars, slot, running>>

InvokeStep == InvokeTest \/ InvokeCall \/ CallbackReturns \/ InvokeEnd

-----------------------------------------------------------------------------
(***************************************************************************)
(* The module is started and stopped around all this.                      *)
(***************************************************************************)
ModuleState ==
    /\ \/ g_state = "STARTING" /\ g_state' = "STARTED"
       \/ g_state = "STARTED" /\ g_state' = "STOPPED"
    /\ UNCHANGED <<tableVars, semcount, callVars, invokeVars>>

TableNext ==
    \/ ModuleState
    \/ \E t \in Thread :
          \/ \E reg \in Registration : RegisterCall(t, reg)
          \/ \E i \in -1 .. MaxHandlers : UnregisterCall(t, i)
          \/ Acquire(t)
          \/ AcquireFails(t)
          \/ ApiStep(t)
          \/ Announce(t)
    \/ FlushAcquire \/ InvokeBegin \/ InvokeStep \/ FlushRelease

(***************************************************************************)
(* Threads that can run do.  The semaphore wakes its waiters in the order  *)
(* they came (attribute 0), so none is passed over forever.  The events    *)
(* thread signals when the queue is empty: printing pauses now and then.   *)
(***************************************************************************)
TableFairness ==
    /\ \A t \in Thread :
          SF_handlerVars(Acquire(t)) /\ WF_handlerVars(ApiStep(t) \/ Announce(t))
    /\ WF_handlerVars(InvokeStep)
    /\ SF_handlerVars(FlushRelease)

TableSpec == TableInit /\ [][TableNext]_handlerVars /\ TableFairness

-----------------------------------------------------------------------------
Occupied == {i \in Index : ~IsFree(i)}

\* Whenever the semaphore is free, g_handler_count is the number of registered
\* handlers, g_default_handler_index names the only slot of the default handler
\* (or there is none), and every slot holds a registration or is cleared:
\* no sequence of calls leaks a slot or strands the default index.
TableConsistent ==
    semcount = 1 =>
        /\ g_handler_count = Cardinality(Occupied)
        /\ \A i \in Index :
              /\ g_handlers[i] \in Registration \cup {Free}
              /\ g_handlers[i].cb = DefaultCb <=> g_default_handler_index = i

Registering(t) == req[t] # Free

\* Before a call lets go of the semaphore its result is true of the table: a
\* returned index holds the caller's handler, consecutive registrations of the
\* default handler got the same slot (kprintf.h), "max handlers" means that
\* every slot is taken, and an unregistered index is free.
ResultsHold ==
    \A t \in Thread : pc[t] = "signal" =>
        /\ Registering(t) /\ ret[t] >= 0 =>
              /\ g_handlers[ret[t]] = req[t]
              /\ req[t].cb = DefaultCb =>
                    {i \in Index : g_handlers[i].cb = DefaultCb} = {ret[t]}
        /\ ret[t] = KPRINTF_ERR_MAX_HANDLERS => Occupied = Index
        /\ ~Registering(t) /\ ret[t] = 0 => IsFree(index[t])

\* While a handler runs it stays registered, with the argument it was called
\* with: once kprintf_unregister_handler has returned, the handler it removed
\* is not running and its argument may be freed.
RunningIsRegistered ==
    ipc = "callback" => running \in Registration /\ running = g_handlers[slot]

Waiting(t) == pc[t] \in {"reg_wait", "unreg_wait"}

\* Whoever has the semaphore can go on: it is a call on its way to SignalSema, or
\* the events thread, and that is not itself waiting for the semaphore in a call
\* of the handler it runs.  So no error path leaves with the semaphore and nobody
\* waits for himself (violated when handlers call the API, see handler_reentry).
HolderRuns ==
    semcount = 0 =>
        \/ \E t \in Thread : pc[t] \in LockedPc
        \/ ipc # "idle" /\ ~Waiting(EvThread)

(***************************************************************************)
(* The registry that callers and messages see.                             *)
(***************************************************************************)
BeingAdded(i) == \E t \in Thread : pc[t] = "reg_arg" /\ index[t] = i

StillToVisit(i) ==
    /\ ~IsFree(i)
    /\ \/ ipc \in {"test", "call"} /\ i >= slot
       \/ ipc = "callback" /\ i > slot

ViewTable == [i \in Index |-> IF IsFree(i) \/ BeingAdded(i) THEN Free ELSE g_handlers[i]]
ViewLeft  == {i \in Index : StillToVisit(i)}
Inside    == ipc \notin {"idle", "held"}

Registry == INSTANCE HandlerRegistry WITH
    Empty <- Free,
    table <- ViewTable,
    visiting <- ViewLeft,
    inside <- Inside

\* handler.c implements the registry: calls take effect at once and between
\* messages, and a message visits the handlers that were registered when
\* invoke_handlers began, each once and in index order, up to a STOP.
TableRefinesRegistry == Registry!RegistrySpec

\* Every API call comes to an end: the semaphore is given back on all paths.
CallsReturn == \A t \in Thread : pc[t] # "idle" ~> pc[t] = "idle"
=============================================================================

------------------------------- MODULE Kprintf -------------------------------
(***************************************************************************)
(* The kprintf library as a whole: startup.c, event.c and the Kprintf      *)
(* handler of handler.c, around the message list (MsgList) and the handler *)
(* table (HandlerTable).                                                   *)
(*                                                                         *)
(*  - The start/stop thread runs init and _stop.                           *)
(*  - Anything that prints calls the kernel's registered Kprintf handler   *)
(*    with interrupts disabled: one step.                                  *)
(*  - The events thread registers the default handler, then waits for the  *)
(*    event flag and flushes the list to the handlers.                     *)
(*  - Threads of other modules call the API.                               *)
(***************************************************************************)
EXTENDS HandlerTable, MsgList

CONSTANTS
    ModuleStops,  \* the module may be stopped
    OtherModules  \* others install Kprintf handlers, or call kprintf_install

ASSUME KprintfAssumption ==
    /\ ModuleStops \in BOOLEAN
    /\ OtherModules \in BOOLEAN

VARIABLES
    spc,       \* where the start/stop thread is in init and _stop
    objects,   \* kernel objects that exist
    khandler,  \* the Kprintf handler registered in the kernel
    evflag,    \* bits of the event flag g_evid
    evpc,      \* where the events thread is in event_thread
    ev         \* its local variable, the bits it was woken up with

kVars == <<spc, objects, khandler, evflag, evpc, ev>>
kprintfVars == <<handlerVars, msgVars, kVars>>

\* init creates the objects in this order and deletes them in reverse order.
CreateOrder == <<"vpl", "evflag", "sema", "thread">>
ObjectsUpTo(i) == {CreateOrder[j] : j \in 1 .. i}

EvBits == {"FLUSH", "TERMINATE", "STOP_OK"}
InitPc == {"create", "start_thread", "install", "started", "cleanup"}
StopPc == {"stop_unregister", "stop_state", "stop_set", "stop_wait"}
EndPc  == {"failed", "acked", "timedout"}
EvPc   == {"dormant", "poll", "register", "registering", "wait", "sema", "flush",
           "flushing", "terminate", "return", "done"}

KTypeOK ==
    /\ TableTypeOK
    /\ MsgTypeOK
    /\ spc \in InitPc \cup StopPc \cup EndPc \cup {"resident"}
    /\ \E i \in 0 .. 4 : objects = ObjectsUpTo(i)
    /\ khandler \in {"none", "ours", "other"}
    /\ evflag \subseteq EvBits
    /\ evpc \in EvPc
    /\ ev \subseteq EvBits

KInit ==
    /\ TableInit
    /\ MsgInit
    /\ spc = "create"
    /\ objects = {}
    /\ khandler = "none"
    /\ evflag = {}
    /\ evpc = "dormant"
    /\ ev = {}

-----------------------------------------------------------------------------
(***************************************************************************)
(* kprintf_handler.  A message that does not fit the buffer, or for which  *)
(* the pool has no room, is dropped without a change.                      *)
(***************************************************************************)

HandlerActive == khandler = "ours" /\ g_state = "STARTED"

\* Mutant of KprintfQueues: the flush event is sent for the first message only.
KprintfQueuesFirstSignals ==
    /\ HandlerActive
    /\ \E b \in Body : Enqueue(b)
    /\ evflag' = IF g_head = NULL THEN evflag \cup {"FLUSH"} ELSE evflag

KprintfQueues ==
    /\ HandlerActive
    /\ \E b \in Body : Enqueue(b)
    /\ evflag' = evflag \cup {"FLUSH"}

KprintfDrops ==
    /\ ~HandlerActive \/ used # {}
    /\ UNCHANGED <<msgVars, evflag>>

\* Anyone prints, a handler on the events thread included.
KprintfCall ==
    /\ KprintfQueues
    /\ UNCHANGED <<handlerVars, spc, objects, khandler, evpc, ev>>

-----------------------------------------------------------------------------
(***************************************************************************)
(* init.                                                                   *)
(***************************************************************************)
InitCreate ==
    /\ spc = "create"
    /\ \E i \in 1 .. 4 :
          /\ objects = ObjectsUpTo(i - 1)
          /\ objects' = ObjectsUpTo(i)
          /\ spc' = IF i = 4 THEN "start_thread" ELSE "create"
    /\ UNCHANGED <<handlerVars, msgVars, khandler, evflag, evpc, ev>>

InitStartThread ==
    /\ spc = "start_thread"
    /\ spc' = "install"
    /\ evpc' = "poll"
    /\ UNCHANGED <<handlerVars, msgVars, objects, khandler, evflag, ev>>

InitInstall ==
    /\ spc = "install"
    /\ spc' = "started"
    /\ khandler' = "ours"
    /\ UNCHANGED <<handlerVars, msgVars, objects, evflag, evpc, ev>>

SetState(s) ==
    /\ g_state' = s
    /\ UNCHANGED <<tableVars, semcount, callVars, invokeVars>>

InitStarted ==
    /\ spc = "started"
    /\ spc' = "resident"
    /\ SetState("STARTED")
    /\ UNCHANGED <<msgVars, objects, khandler, evflag, evpc, ev>>

InitFails ==
    /\ spc \in {"create", "start_thread", "install"}
    /\ spc' = "cleanup"
    /\ UNCHANGED <<handlerVars, msgVars, objects, khandler, evflag, evpc, ev>>

\* Mutant of CleanupDelete: the objects go in the order they were created.
CleanupDeleteFirst ==
    /\ spc = "cleanup"
    /\ \E o \in objects :
          /\ objects' = objects \ {o}
          /\ evpc' = IF o = "thread" THEN "dormant" ELSE evpc
    /\ UNCHANGED <<handlerVars, msgVars, spc, khandler, evflag, ev>>

CleanupDelete ==
    /\ spc = "cleanup"
    /\ \E i \in 1 .. 4 :
          /\ objects = ObjectsUpTo(i)
          /\ objects' = ObjectsUpTo(i - 1)
          /\ evpc' = IF CreateOrder[i] = "thread" THEN "dormant" ELSE evpc
    /\ UNCHANGED <<handlerVars, msgVars, spc, khandler, evflag, ev>>

CleanupEnds ==
    /\ spc = "cleanup"
    /\ objects = {}
    /\ spc' = "failed"
    /\ SetState("STOPPED")
    /\ UNCHANGED <<msgVars, objects, khandler, evflag, evpc, ev>>

InitStep ==
    \/ InitCreate
    \/ InitStartThread
    \/ InitInstall
    \/ InitStarted
    \/ InitFails
    \/ CleanupDelete
    \/ CleanupEnds

-----------------------------------------------------------------------------
(***************************************************************************)
(* _stop.                                                                  *)
(***************************************************************************)
Stop ==
    /\ ModuleStops
    /\ spc = "resident"
    /\ KprintfQueues \/ KprintfDrops
    /\ spc' = "stop_unregister"
    /\ UNCHANGED <<handlerVars, objects, khandler, evpc, ev>>

StopUnregister ==
    /\ spc = "stop_unregister"
    /\ spc' = "stop_state"
    /\ khandler' = "none"
    /\ UNCHANGED <<handlerVars, msgVars, objects, evflag, evpc, ev>>

StopState ==
    /\ spc = "stop_state"
    /\ spc' = "stop_set"
    /\ SetState("STOPPED")
    /\ UNCHANGED <<msgVars, objects, khandler, evflag, evpc, ev>>

StopSet ==
    /\ spc = "stop_set"
    /\ spc' = "stop_wait"
    /\ evflag' = evflag \cup {"FLUSH", "TERMINATE"}
    /\ UNCHANGED <<handlerVars, msgVars, objects, khandler, evpc, ev>>

StopAck ==
    /\ spc = "stop_wait"
    /\ "STOP_OK" \in evflag
    /\ spc' = "acked"
    /\ evflag' = evflag \ {"STOP_OK"}
    /\ UNCHANGED <<handlerVars, msgVars, objects, khandler, evpc, ev>>

\* The wait ends after 250 ms, and _stop does not look at its result.
StopTimeout ==
    /\ spc = "stop_wait"
    /\ spc' = "timedout"
    /\ UNCHANGED <<handlerVars, msgVars, objects, khandler, evflag, evpc, ev>>

StopStep == StopUnregister \/ StopState \/ StopSet \/ StopAck \/ StopTimeout

-----------------------------------------------------------------------------
(***************************************************************************)
(* event_thread.                                                           *)
(***************************************************************************)
EvPoll ==
    /\ evpc = "poll"
    /\ g_state = "STARTED"
    /\ evpc' = "register"
    /\ UNCHANGED <<handlerVars, msgVars, spc, objects, khandler, evflag, ev>>

\* register_default_handler, which is refused when the module is being stopped
EvRegister ==
    /\ evpc = "register"
    /\ evpc' = "registering"
    /\ \/ /\ EnterRegister(EvThread, [cb |-> DefaultCb, arg |-> Stdout])
          /\ UNCHANGED <<g_state, tableVars, semcount, invokeVars>>
       \/ g_state # "STARTED" /\ UNCHANGED handlerVars
    /\ UNCHANGED <<msgVars, spc, objects, khandler, evflag, ev>>

\* It returned; detect_psplink and the delay for USB take any time.
EvSetup ==
    /\ evpc = "registering"
    /\ pc[EvThread] = "idle"
    /\ evpc' = "wait"
    /\ UNCHANGED <<handlerVars, msgVars, spc, objects, khandler, evflag, ev>>

\* Mutant of EvWait: the request to terminate is looked at first.
EvWaitTerminateFirst ==
    /\ evpc = "wait"
    /\ evflag \cap {"FLUSH", "TERMINATE"} # {}
    /\ ev' = evflag
    /\ evflag' = evflag \ {"FLUSH", "TERMINATE"}
    /\ evpc' = IF "TERMINATE" \in evflag THEN "terminate" ELSE "sema"
    /\ UNCHANGED <<handlerVars, msgVars, spc, objects, khandler>>

EvWait ==
    /\ evpc = "wait"
    /\ evflag \cap {"FLUSH", "TERMINATE"} # {}
    /\ ev' = evflag
    /\ evflag' = evflag \ {"FLUSH", "TERMINATE"}
    /\ evpc' = IF "FLUSH" \in evflag THEN "sema" ELSE "terminate"
    /\ UNCHANGED <<handlerVars, msgVars, spc, objects, khandler>>

EvSema ==
    /\ evpc = "sema"
    /\ FlushAcquire
    /\ evpc' = "flush"
    /\ UNCHANGED <<msgVars, spc, objects, khandler, evflag, ev>>

\* Mutant of AfterFlush: a flush goes back to the wait whatever came with it.
AfterFlushWaits == "wait"

AfterFlush == IF "TERMINATE" \in ev THEN "terminate" ELSE "wait"

\* Mutant of EvSemaFails: the consumed event is not sent again.
EvSemaFailsSilently ==
    /\ SemaMayFail
    /\ evpc = "sema"
    /\ evpc' = AfterFlush
    /\ UNCHANGED <<handlerVars, msgVars, spc, objects, khandler, evflag, ev>>

\* The semaphore could not be taken: resend the event.
EvSemaFails ==
    /\ SemaMayFail
    /\ evpc = "sema"
    /\ evflag' = evflag \cup {"FLUSH"}
    /\ evpc' = AfterFlush
    /\ UNCHANGED <<handlerVars, msgVars, spc, objects, khandler, ev>>

\* flush_messages, with invoke_handlers inside

EvFlush ==
    /\ evpc = "flush"
    /\ FlushBegin
    /\ evpc' = "flushing"
    /\ UNCHANGED <<handlerVars, spc, objects, khandler, evflag, ev>>

EvInvoke ==
    /\ fpc = "invoke"
    /\ InvokeBegin \/ InvokeTest \/ InvokeCall \/ CallbackReturns
    /\ UNCHANGED <<msgVars, kVars>>

\* Mutant of EvInvoked: a message may be passed over.
EvInvokedSkips ==
    /\ FlushInvoked
    /\ InvokeEnd \/ (ipc = "held" /\ UNCHANGED handlerVars)
    /\ UNCHANGED kVars

EvInvoked ==
    /\ FlushInvoked
    /\ InvokeEnd
    /\ UNCHANGED kVars

EvList ==
    /\ FlushReadNext \/ FlushCheckHead \/ FlushRemove \/ FlushAdvance
    /\ UNCHANGED <<handlerVars, kVars>>

EvSignal ==
    /\ evpc = "flushing"
    /\ fpc = "idle"
    /\ FlushRelease
    /\ evpc' = AfterFlush
    /\ UNCHANGED <<msgVars, spc, objects, khandler, evflag, ev>>

\* Mutant of EvTerminate: the thread answers and goes on waiting.
EvTerminateGoesOn ==
    /\ evpc = "terminate"
    /\ evflag' = evflag \cup {"STOP_OK"}
    /\ evpc' = "wait"
    /\ UNCHANGED <<handlerVars, msgVars, spc, objects, khandler, ev>>

\* The answer wakes _stop up while the thread has still to return.
EvTerminate ==
    /\ evpc = "terminate"
    /\ evflag' = evflag \cup {"STOP_OK"}
    /\ evpc' = "return"
    /\ UNCHANGED <<handlerVars, msgVars, spc, objects, khandler, ev>>

EvReturn ==
    /\ evpc = "return"
    /\ evpc' = "done"
    /\ UNCHANGED <<handlerVars, msgVars, spc, objects, khandler, evflag, ev>>

EvStep ==
    \/ EvPoll
    \/ EvRegister
    \/ EvSetup
    \/ EvWait
    \/ EvSema
    \/ EvSemaFails
    \/ EvFlush
    \/ EvInvoke
    \/ EvInvoked
    \/ EvList
    \/ EvSignal
    \/ EvTerminate
    \/ EvReturn

-----------------------------------------------------------------------------
(***************************************************************************)
(* API calls, and other modules that register Kprintf handlers.            *)
(***************************************************************************)
CallStarts(t) ==
    /\ \/ \E reg \in Registration : RegisterCall(t, reg)
       \/ \E i \in -1 .. MaxHandlers : UnregisterCall(t, i)
    /\ UNCHANGED <<msgVars, kVars>>

CallAcquires(t) == Acquire(t) /\ UNCHANGED <<msgVars, kVars>>

CallFails(t) == AcquireFails(t) /\ UNCHANGED <<msgVars, kVars>>

CallGoesOn(t) ==
    \/ ApiStep(t) /\ UNCHANGED <<msgVars, kVars>>
    \/ /\ Announce(t)
       /\ KprintfQueues \/ KprintfDrops
       /\ UNCHANGED <<spc, objects, khandler, evpc, ev>>

\* kprintf_install, which does not look at g_state
InstallCall ==
    /\ OtherModules
    /\ spc \notin EndPc
    /\ khandler' = "ours"
    /\ UNCHANGED <<handlerVars, msgVars, spc, objects, evflag, evpc, ev>>

OtherInstalls ==
    /\ OtherModules
    /\ khandler' = "other"
    /\ UNCHANGED <<handlerVars, msgVars, spc, objects, evflag, evpc, ev>>

-----------------------------------------------------------------------------
KNext ==
    \/ InitStep
    \/ Stop
    \/ StopStep
    \/ EvStep
    \/ KprintfCall
    \/ \E t \in Thread :
          CallStarts(t) \/ CallAcquires(t) \/ CallFails(t) \/ CallGoesOn(t)
    \/ InstallCall
    \/ OtherInstalls

(***************************************************************************)
(* Threads that can run do, delays end, handlers return, and the semaphore *)
(* wakes its waiters in order.  Nothing makes anyone print, call the API   *)
(* or stop the module.                                                     *)
(***************************************************************************)
KFairness ==
    /\ WF_kprintfVars(EvStep)
    /\ SF_kprintfVars(EvSema)
    /\ WF_kprintfVars(InitStep)
    /\ WF_kprintfVars(StopStep)
    /\ \A t \in Thread :
          SF_kprintfVars(CallAcquires(t)) /\ WF_kprintfVars(CallGoesOn(t))

KSpec == KInit /\ [][KNext]_kprintfVars /\ KFairness

-----------------------------------------------------------------------------
\* The flusher read n before the handler appended: it will leave the loop
\* without having seen the rest of the list.
MissesTail ==
    /\ n = NULL
    /\ \/ fpc \in {"check", "remove"} /\ next[m] # NULL
       \/ fpc = "advance" /\ g_head # NULL

\* No queued message is forgotten: while the queue holds one, the flush event
\* is pending, or the events thread is about to flush, or it is in a flush that
\* will reach the end of the list.
NoLostWakeup ==
    g_head # NULL =>
        \/ "FLUSH" \in evflag
        \/ evpc \in {"sema", "flush"}
        \/ evpc = "flushing" /\ fpc # "idle" /\ ~MissesTail

\* When _stop got its EV_STOP_OK the queue has been flushed to the handlers
\* and the events thread has nothing left to do but to return: "When it's done
\* flushing, it'll send us a EV_STOP_OK event" (startup.c).  The one exception is
\* a wait for the semaphore that failed in the thread's last round, whose flush
\* event is still set.
StopDrained ==
    spc = "acked" =>
        /\ evpc \in {"return", "done"}
        /\ (used = {} /\ g_head = NULL) \/ (SemaMayFail /\ "FLUSH" \in evflag)

\* The request to stop is never lost, although it shares one event flag, one local
\* variable and its round of the loop with the flush events: until the answer is
\* there it is pending, or the events thread has it in hand.
StopRequestKept ==
    spc = "stop_wait" =>
        \/ "TERMINATE" \in evflag
        \/ "TERMINATE" \in ev /\ evpc \in {"sema", "flush", "flushing", "terminate"}
        \/ "STOP_OK" \in evflag

\* "We wanna make sure it has finished before stopping the module" (startup.c):
\* after an answered stop, when the module may be unloaded, the Kprintf handler and
\* the events thread never touch the queue, the state or the event flag and call no
\* handler again.  The thread need not have ended: what it may still do is return.
AnswerIsFinal ==
    [][spc = "acked" =>
          /\ UNCHANGED <<spc, g_state, msgVars, invokeVars, evflag>>
          /\ evpc' # evpc => evpc = "return" /\ evpc' = "done"]_kprintfVars

\* The kernel objects outlive their users, also when init fails half-way: the
\* events thread exists only while the pool, the event flag and the semaphore
\* do, and so does every message, API call and active Kprintf handler.
ObjectsLive ==
    \/ objects = ObjectsUpTo(4)
    \/ evpc = "dormant" /\ used = {} /\ ~HandlerActive /\ \A t \in Thread : pc[t] = "idle"

\* "Our module is gonna be unloaded, and our handler will be invalid.  We have
\* to make sure our handler is no longer registered" (startup.c): when _stop
\* returns, the kernel does not have kprintf_handler.
HandlerUnregistered == spc \in {"acked", "timedout"} => khandler # "ours"

(***************************************************************************)
(* The port that printing code and the loader see: it is open while        *)
(* g_state is STARTED, and the work is finished when event_thread has      *)
(* answered and only its return is left.  Its last attempt to get at the   *)
(* queue failed when it is about to answer, or has answered, with the      *)
(* flush event sent again.                                                 *)
(***************************************************************************)
PortPhase ==
    CASE evpc \in {"return", "done"} -> "finished"
      [] spc = "failed"              -> "failed"
      [] g_state = "STARTING"        -> "starting"
      [] g_state = "STARTED"         -> "open"
      [] OTHER                       -> "closed"

PortMissed == evpc \in {"terminate", "return", "done"} /\ "FLUSH" \in evflag

PortStop ==
    CASE spc = "acked"    -> "answered"
      [] spc = "timedout" -> "abandoned"
      [] OTHER            -> "none"

Port == INSTANCE KprintfPort WITH
    queue <- Queued,
    current <- Current,
    Capacity <- Cardinality(Addr),
    MayFail <- SemaMayFail,
    phase <- PortPhase,
    missed <- PortMissed,
    stop <- PortStop

\* init, kprintf_handler, event_thread and _stop together keep the library's
\* promise, in every order in which their steps can come: what is accepted is
\* accepted while the module is started, what was accepted is passed on in order
\* before the events thread stops working, except after a last wait for the
\* semaphore that failed, and _stop returns with an answer only after.
KeepsPort == Port!PortSpec

(***************************************************************************)
(* The service that registered handlers see.                               *)
(***************************************************************************)
ShownNow == Inside \/ fpc \in {"next", "check", "remove"}

Service == INSTANCE KprintfService WITH
    queue <- Queued,
    current <- Current,
    Capacity <- Cardinality(Addr),
    Empty <- Free,
    table <- ViewTable,
    visiting <- ViewLeft,
    inside <- Inside,
    shown <- ShownNow

\* From Kprintf to the sub-handlers: every accepted message is shown, in its turn
\* and once, to every handler that is registered when its turn comes (up to one that
\* stops it) and is removed only after that, and no call that registers or
\* unregisters a handler takes effect in between.
KeepsService == Service!ServiceSpec

\* "When it's done flushing, it'll send us a EV_STOP_OK event" (startup.c): the
\* events thread answers every request to terminate.
StopAnswered == spc = "stop_wait" ~> spc = "acked" \/ "STOP_OK" \in evflag
=============================================================================

-------------------------- MODULE KprintfStopProofs --------------------------
(***************************************************************************)
(* Proofs about the flush event and the stop of the module.  A message is  *)
(* never left without a flush to come; and because the request to          *)
(* terminate is sent with a last flush event when nothing can be queued    *)
(* any more, the events thread answers with an empty queue.                *)
(***************************************************************************)
EXTENDS KprintfProofs

\* The terminate event has been sent.
Asked == spc \in {"stop_wait", "acked", "timedout"}

\* The queue is empty, or the last wait for the semaphore failed.
Drained == g_head = NULL \/ (SemaMayFail /\ "FLUSH" \in evflag)

\* The events thread has answered, and has nothing left but its return.
Answered == evpc \in {"return", "done"}

StopInv ==
    /\ spc = "stop_set" \/ Asked => g_state = "STOPPED"
    /\ "TERMINATE" \in evflag \/ "TERMINATE" \in ev \/ evpc = "terminate" \/ Answered => Asked
    /\ "STOP_OK" \in evflag \/ spc = "acked" => Answered
    /\ evpc \in {"sema", "flush", "flushing"} /\ "TERMINATE" \in ev => "FLUSH" \notin evflag
    /\ evpc = "terminate" \/ Answered => Drained

WakeInv ==
    /\ fpc # "idle" => evpc = "flushing"
    /\ NoLostWakeup
    /\ StopInv

\* The list is empty exactly when no block is allocated.
LEMMA EmptyList == ListInv => (g_head = NULL <=> used = {})
<1>. SUFFICES ASSUME ListInv PROVE g_head = NULL <=> used = {}
  OBVIOUS
<1>1. PICK p \in Seq(Addr) : IsChain(p) /\ Blocks(p) = used
  BY DEF ListInv, ListShape
<1>2. p = <<>> => g_head = NULL /\ used = {}
  BY <1>1 DEF IsChain, Blocks
<1>3. p # <<>> => 1 \in 1 .. Len(p) /\ g_head = p[1] /\ p[1] \in Addr
  BY <1>1 DEF IsChain
<1>4. p # <<>> => g_head \in used /\ g_head # NULL
  BY <1>1, <1>3, MsgAssumption DEF Blocks
<1>. QED
  BY <1>2, <1>4

\* remove_delete_msg takes the head, and what follows it becomes the head.
LEMMA RemoveTakesHead ==
    ASSUME ListInv, FlushRemove
    PROVE  g_head # NULL /\ g_head = m /\ g_head' = next[m]
<1>1. PICK p \in Seq(Addr) : ListShape(p)
  BY DEF ListInv
<1>2. p # <<>> /\ m = p[1] /\ g_head = m /\ m \in Addr
  BY <1>1 DEF FlushRemove, ListShape, FlusherOn, OnMsg, IsChain
<1>3. g_head # NULL /\ m \in Linked
  BY <1>2, MsgAssumption, HeadLinked DEF ListInv
<1>. QED
  BY <1>2, <1>3 DEF FlushRemove, RemoveDelete, Unlink

-----------------------------------------------------------------------------
\* A print leaves a flush event behind, and there are none once the module stops.
LEMMA PrintKeepsWake ==
    ASSUME WakeInv,
           UNCHANGED <<g_state, spc, evpc, ev>>,
           UNCHANGED <<msgVars, evflag>> \/ KprintfQueues
    PROVE  WakeInv'
<1>1. CASE UNCHANGED <<msgVars, evflag>>
  BY <1>1 DEF WakeInv, NoLostWakeup, MissesTail, StopInv, Answered, Asked, Drained, msgVars
<1>2. CASE KprintfQueues
  <2>1. g_state = "STARTED" /\ evflag' = evflag \cup {"FLUSH"} /\ UNCHANGED fpc
    BY <1>2 DEF KprintfQueues, HandlerActive, Enqueue, flushVars
  <2>2. ~Asked /\ spc # "stop_set"
    BY <2>1 DEF WakeInv, StopInv, Answered
  <2>. QED
    BY <2>1, <2>2 DEF WakeInv, NoLostWakeup, StopInv, Answered, Asked, Drained
<1>. QED
  BY <1>1, <1>2

\* init: nobody has used the library yet.
LEMMA InitKeepsWake ==
    ASSUME KInv, WakeInv, InitStep
    PROVE  WakeInv'
<1>1. spc \in InitPc /\ spc' \in InitPc \cup {"failed", "resident"}
  BY DEF InitStep, InitCreate, InitStartThread, InitInstall, InitStarted, InitFails, CleanupDelete,
     CleanupEnds, InitPc
<1>2. UNCHANGED <<msgVars, evflag, ev>>
  BY DEF InitStep, InitCreate, InitStartThread, InitInstall, InitStarted, InitFails, CleanupDelete,
     CleanupEnds
<1>3. g_head = NULL /\ evpc \in {"dormant", "poll"}
  BY <1>1, EmptyList DEF KInv, PhaseInv, Unused
<1>4. evpc' \in {"dormant", "poll"}
  BY <1>3 DEF InitStep, InitCreate, InitStartThread, InitInstall, InitStarted, InitFails, CleanupDelete,
     CleanupEnds
<1>5. ~Asked /\ ~Asked' /\ spc' # "stop_set"
  BY <1>1 DEF Asked, InitPc
<1>. QED
  BY <1>1, <1>2, <1>3, <1>4, <1>5 DEF WakeInv, NoLostWakeup, StopInv, Answered, Asked, msgVars, InitPc

\* _stop: the state changes before the terminate event is sent, with a flush event.
LEMMA StopKeepsWake ==
    ASSUME KInv, WakeInv, Stop \/ StopStep
    PROVE  WakeInv'
<1>1. CASE Stop
  <2>1. UNCHANGED <<g_state, evpc, ev>> /\ spc = "resident" /\ spc' = "stop_unregister"
    BY <1>1 DEF Stop, handlerVars
  <2>2. ~Asked /\ ~Asked'
    BY <2>1 DEF Asked
  <2>3. CASE KprintfDrops
    BY <2>1, <2>2, <2>3 DEF KprintfDrops, WakeInv, NoLostWakeup, MissesTail, StopInv, Answered, Drained, msgVars
  <2>4. CASE KprintfQueues
    <3>1. evflag' = evflag \cup {"FLUSH"} /\ UNCHANGED fpc
      BY <2>4 DEF KprintfQueues, Enqueue, flushVars
    <3>. QED
      BY <2>1, <2>2, <3>1 DEF WakeInv, NoLostWakeup, StopInv, Answered, Drained
  <2>. QED
    BY <1>1, <2>3, <2>4 DEF Stop
<1>2. CASE StopUnregister \/ StopState
  <2>1. /\ UNCHANGED <<msgVars, evflag, evpc, ev>>
        /\ spc \in {"stop_unregister", "stop_state"} /\ spc' \in {"stop_state", "stop_set"}
        /\ spc' = "stop_set" => g_state' = "STOPPED"
    BY <1>2 DEF StopUnregister, StopState, SetState
  <2>. QED
    BY <2>1 DEF WakeInv, NoLostWakeup, MissesTail, StopInv, Answered, Asked, Drained, msgVars
<1>3. CASE StopSet
  <2>1. /\ UNCHANGED <<g_state, msgVars, evpc, ev>>
        /\ spc = "stop_set" /\ spc' = "stop_wait"
        /\ evflag' = evflag \cup {"FLUSH", "TERMINATE"}
    BY <1>3 DEF StopSet, handlerVars
  <2>. QED
    BY <2>1 DEF WakeInv, NoLostWakeup, StopInv, Answered, Asked, Drained, msgVars
<1>4. CASE StopAck \/ StopTimeout
  <2>1. /\ UNCHANGED <<g_state, msgVars, evpc, ev>>
        /\ spc = "stop_wait" /\ spc' \in {"acked", "timedout"}
        /\ spc' = "acked" => "STOP_OK" \in evflag
        /\ evflag' \subseteq evflag /\ evflag \subseteq evflag' \cup {"STOP_OK"}
    BY <1>4 DEF StopAck, StopTimeout, handlerVars
  <2>. QED
    BY <2>1 DEF WakeInv, NoLostWakeup, MissesTail, StopInv, Answered, Asked, Drained, msgVars
<1>. QED
  BY <1>1, <1>2, <1>3, <1>4 DEF StopStep

\* The loop of flush_messages leaves a nonempty list only with the flush event set.
LEMMA FlushKeepsWake ==
    ASSUME KInv, WakeInv, EvFlush \/ EvInvoke \/ EvInvoked \/ EvList
    PROVE  WakeInv'
<1>1. CASE EvFlush
  <2>1. /\ UNCHANGED <<g_state, spc, evflag, ev, g_head, n>>
        /\ evpc = "flush" /\ evpc' = "flushing"
        /\ fpc' = IF g_head = NULL THEN "idle" ELSE "invoke"
    BY <1>1 DEF EvFlush, FlushBegin, handlerVars, listVars
  <2>. QED
    BY <2>1 DEF WakeInv, NoLostWakeup, MissesTail, StopInv, Answered, Asked, Drained
<1>2. CASE EvInvoke
  <2>1. UNCHANGED <<g_state, spc, evpc, ev, msgVars, evflag>>
    BY <1>2 DEF EvInvoke, InvokeBegin, InvokeTest, InvokeCall, CallbackReturns, kVars, callVars
  <2>. QED
    BY <2>1, PrintKeepsWake
<1>3. CASE EvInvoked \/ EvList
  <2>1. /\ UNCHANGED <<g_state, spc, evpc, ev, evflag>>
        /\ fpc # "idle"
    BY <1>3 DEF EvInvoked, EvList, InvokeEnd, FlushInvoked, FlushReadNext, FlushCheckHead, FlushRemove,
       FlushAdvance, kVars, handlerVars
  <2>2. evpc = "flushing"
    BY <2>1 DEF WakeInv
  <2>3. NoLostWakeup'
    <3>1. CASE FlushInvoked
      BY <2>1, <2>2, <3>1 DEF FlushInvoked, listVars, WakeInv, NoLostWakeup, MissesTail
    <3>2. CASE FlushReadNext
      BY <2>1, <2>2, <3>2 DEF FlushReadNext, listVars, WakeInv, NoLostWakeup, MissesTail
    <3>3. CASE FlushCheckHead
      BY <2>1, <2>2, <3>3 DEF FlushCheckHead, listVars, WakeInv, NoLostWakeup, MissesTail
    <3>4. CASE FlushRemove
      <4>1. g_head # NULL /\ g_head' = next[m]
        BY <3>4, RemoveTakesHead DEF KInv
      <4>2. fpc = "remove" /\ fpc' = "advance" /\ UNCHANGED <<m, n>>
        BY <3>4 DEF FlushRemove
      <4>. QED
        BY <2>1, <2>2, <4>1, <4>2 DEF WakeInv, NoLostWakeup, MissesTail
    <3>5. CASE FlushAdvance
      BY <2>1, <2>2, <3>5 DEF FlushAdvance, listVars, WakeInv, NoLostWakeup, MissesTail
    <3>. QED
      BY <1>3, <3>1, <3>2, <3>3, <3>4, <3>5 DEF EvInvoked, EvList
  <2>. QED
    BY <2>1, <2>2, <2>3 DEF WakeInv, StopInv, Answered, Asked
<1>. QED
  BY <1>1, <1>2, <1>3

\* The rest of event_thread.
LEMMA EventKeepsWake ==
    ASSUME KInv, WakeInv, EvStep
    PROVE  WakeInv'
<1>1. CASE EvPoll \/ EvRegister \/ EvSetup
  <2>1. /\ UNCHANGED <<g_state, spc, msgVars, evflag, ev>>
        /\ evpc \in {"poll", "register", "registering"} /\ evpc' \in {"register", "registering", "wait"}
    BY <1>1 DEF EvPoll, EvRegister, EvSetup, handlerVars
  <2>. QED
    BY <2>1 DEF WakeInv, NoLostWakeup, StopInv, Answered, Asked, msgVars
<1>2. CASE EvWait
  <2>1. /\ UNCHANGED <<g_state, spc, msgVars>>
        /\ evpc = "wait"
        /\ ev' = evflag /\ evflag' = evflag \ {"FLUSH", "TERMINATE"}
        /\ evpc' = IF "FLUSH" \in evflag THEN "sema" ELSE "terminate"
        /\ "FLUSH" \in evflag \/ "TERMINATE" \in evflag
    BY <1>2 DEF EvWait, handlerVars
  <2>. QED
    BY <2>1 DEF WakeInv, NoLostWakeup, StopInv, Answered, Asked, Drained, msgVars
<1>3. CASE EvSema
  <2>1. /\ UNCHANGED <<g_state, spc, msgVars, evflag, ev>>
        /\ evpc = "sema" /\ evpc' = "flush"
    BY <1>3 DEF EvSema, FlushAcquire
  <2>. QED
    BY <2>1 DEF WakeInv, NoLostWakeup, StopInv, Answered, Asked, msgVars
<1>4. CASE EvSemaFails
  <2>1. /\ UNCHANGED <<g_state, spc, msgVars, ev>>
        /\ SemaMayFail /\ evpc = "sema"
        /\ evflag' = evflag \cup {"FLUSH"}
        /\ evpc' = IF "TERMINATE" \in ev THEN "terminate" ELSE "wait"
    BY <1>4 DEF EvSemaFails, AfterFlush, handlerVars
  <2>. QED
    BY <2>1 DEF WakeInv, NoLostWakeup, StopInv, Answered, Asked, Drained, msgVars
<1>5. CASE EvSignal
  <2>1. /\ UNCHANGED <<g_state, spc, msgVars, evflag, ev>>
        /\ evpc = "flushing" /\ fpc = "idle"
        /\ evpc' = IF "TERMINATE" \in ev THEN "terminate" ELSE "wait"
    BY <1>5 DEF EvSignal, AfterFlush, FlushRelease
  <2>. QED
    BY <2>1 DEF WakeInv, NoLostWakeup, StopInv, Answered, Asked, Drained, msgVars
<1>6. CASE EvTerminate
  <2>1. /\ UNCHANGED <<g_state, spc, msgVars, ev>>
        /\ evpc = "terminate" /\ evpc' = "return"
        /\ evflag' = evflag \cup {"STOP_OK"}
    BY <1>6 DEF EvTerminate, handlerVars
  <2>. QED
    BY <2>1 DEF WakeInv, NoLostWakeup, StopInv, Answered, Asked, Drained, msgVars
<1>7. CASE EvReturn
  <2>1. /\ UNCHANGED <<g_state, spc, msgVars, evflag, ev>>
        /\ evpc = "return" /\ evpc' = "done"
    BY <1>7 DEF EvReturn, handlerVars
  <2>. QED
    BY <2>1 DEF WakeInv, NoLostWakeup, StopInv, Answered, Asked, Drained, msgVars
<1>. QED
  BY <1>1, <1>2, <1>3, <1>4, <1>5, <1>6, <1>7, FlushKeepsWake DEF EvStep

\* API calls print and do nothing else to the queue or the event flag.
LEMMA CallsPrintOnly ==
    ASSUME NEW t \in Thread,
           CallStarts(t) \/ CallAcquires(t) \/ CallFails(t) \/ CallGoesOn(t)
    PROVE  /\ UNCHANGED <<g_state, spc, evpc, ev>>
           /\ UNCHANGED <<msgVars, evflag>> \/ KprintfQueues
<1>1. UNCHANGED <<g_state, spc, evpc, ev>>
  <2>1. CASE CallStarts(t) \/ CallAcquires(t) \/ CallFails(t)
    BY <2>1 DEF CallStarts, CallAcquires, CallFails, RegisterCall, UnregisterCall, EnterRegister,
       EnterUnregister, Acquire, AcquireFails, kVars
  <2>2. CASE CallGoesOn(t)
    BY <2>2 DEF CallGoesOn, ApiStep, RegisterRefused, RegisterFind, RegisterCb, RegisterArg,
       UnregisterRefused, UnregisterCheck, UnregisterCb, UnregisterArg, Signal, Announce, GoTo, kVars
  <2>. QED
    BY <2>1, <2>2
<1>2. UNCHANGED <<msgVars, evflag>> \/ KprintfQueues
  BY DEF CallStarts, CallAcquires, CallFails, CallGoesOn, KprintfDrops, kVars
<1>. QED
  BY <1>1, <1>2

\* Every step of the library keeps the invariant about events and the stop.
LEMMA WakeStep == KInv /\ WakeInv /\ [KNext]_kprintfVars => WakeInv'
<1>. SUFFICES ASSUME KInv, WakeInv, [KNext]_kprintfVars PROVE WakeInv'
  OBVIOUS
<1>1. CASE KprintfCall
  BY <1>1, PrintKeepsWake DEF KprintfCall, handlerVars
<1>2. CASE InstallCall \/ OtherInstalls \/ UNCHANGED kprintfVars
  BY <1>2, PrintKeepsWake DEF InstallCall, OtherInstalls, kprintfVars, kVars, handlerVars
<1>. QED
  BY <1>1, <1>2, InitKeepsWake, StopKeepsWake, EventKeepsWake, CallsPrintOnly, PrintKeepsWake DEF KNext

\* The inductive invariant about events and the stop.
THEOREM WakeInvariant == KSpec => []WakeInv
<1>1. KInit => WakeInv
  BY DEF KInit, MsgInit, WakeInv, NoLostWakeup, StopInv, Answered, Asked
<1>. QED
  BY <1>1, WakeStep, KprintfInvariant, PTL DEF KSpec

\* While a message is queued a flush that reaches it is pending or under way, for
\* every pool, and with failing waits, other modules and a stop at any time.
THEOREM KprintfNoLostWakeup == KSpec => []NoLostWakeup
<1>1. WakeInv => NoLostWakeup
  BY DEF WakeInv
<1>. QED
  BY <1>1, WakeInvariant, PTL

\* An acknowledged stop leaves an events thread that has nothing to do but return,
\* and an empty queue and pool, unless the last wait for the semaphore failed.
THEOREM KprintfStopDrained == KSpec => []StopDrained
<1>1. KInv /\ WakeInv => StopDrained
  <2>1. KInv => (g_head = NULL <=> used = {})
    BY EmptyList DEF KInv
  <2>. QED
    BY <2>1 DEF WakeInv, StopInv, Answered, StopDrained, Drained
<1>. QED
  BY <1>1, KprintfInvariant, WakeInvariant, PTL

-----------------------------------------------------------------------------
\* The request to terminate goes from the event flag to the thread's local variable
\* and from there to the answer, and nothing in between drops it.
LEMMA RequestStep == StopRequestKept /\ [KNext]_kprintfVars => StopRequestKept'
<1>. SUFFICES ASSUME StopRequestKept, [KNext]_kprintfVars, spc' = "stop_wait"
              PROVE  \/ "TERMINATE" \in evflag'
                     \/ "TERMINATE" \in ev' /\ evpc' \in {"sema", "flush", "flushing", "terminate"}
                     \/ "STOP_OK" \in evflag'
  BY DEF StopRequestKept
<1>1. CASE evflag \subseteq evflag' /\ UNCHANGED <<spc, ev, evpc>>
  BY <1>1 DEF StopRequestKept
<1>2. ~InitStep
  BY DEF InitStep, InitCreate, InitStartThread, InitInstall, InitStarted, InitFails, CleanupDelete,
     CleanupEnds
<1>3. CASE Stop \/ StopStep
  BY <1>3 DEF Stop, StopStep, StopUnregister, StopState, StopSet, StopAck, StopTimeout
<1>4. CASE EvStep
  <2>1. UNCHANGED spc
    BY <1>4 DEF EvStep, EvPoll, EvRegister, EvSetup, EvWait, EvSema, EvSemaFails, EvFlush, EvInvoke,
       EvInvoked, EvList, EvSignal, EvTerminate, EvReturn, kVars
  <2>2. CASE EvWait
    BY <2>1, <2>2 DEF EvWait, StopRequestKept
  <2>3. CASE EvPoll \/ EvRegister \/ EvSetup \/ EvSema \/ EvFlush
    BY <2>1, <2>3 DEF EvPoll, EvRegister, EvSetup, EvSema, EvFlush, StopRequestKept
  <2>4. CASE EvSemaFails \/ EvSignal
    BY <2>1, <2>4 DEF EvSemaFails, EvSignal, AfterFlush, StopRequestKept
  <2>5. CASE EvInvoke \/ EvInvoked \/ EvList
    BY <1>1, <2>5 DEF EvInvoke, EvInvoked, EvList, kVars
  <2>6. CASE EvTerminate
    BY <2>6 DEF EvTerminate
  <2>7. CASE EvReturn
    BY <2>1, <2>7 DEF EvReturn, StopRequestKept
  <2>. QED
    BY <1>4, <2>2, <2>3, <2>4, <2>5, <2>6, <2>7 DEF EvStep
<1>5. ASSUME NEW t \in Thread,
             CallStarts(t) \/ CallAcquires(t) \/ CallFails(t) \/ CallGoesOn(t)
      PROVE  evflag \subseteq evflag' /\ UNCHANGED <<spc, ev, evpc>>
  BY <1>5, CallsPrintOnly DEF KprintfQueues
<1>6. CASE KprintfCall \/ InstallCall \/ OtherInstalls \/ UNCHANGED kprintfVars
  BY <1>1, <1>6 DEF KprintfCall, KprintfQueues, InstallCall, OtherInstalls, kprintfVars, kVars
<1>. QED
  BY <1>1, <1>2, <1>3, <1>4, <1>5, <1>6 DEF KNext

\* While _stop waits, its request is pending, in the events thread's hands, or
\* answered, whatever flush events, failing waits and prints come between.
THEOREM KprintfStopRequestKept == KSpec => []StopRequestKept
<1>1. KInit => StopRequestKept
  BY DEF KInit, StopRequestKept
<1>. QED
  BY <1>1, RequestStep, PTL DEF KSpec

\* After an answered stop the events thread may return, and API calls that had got
\* past their test of g_state go on; nothing else of the library runs any more, and
\* queue, state, event flag and the loop over the handlers stay as they are.
THEOREM KprintfAnswerIsFinal == KSpec => AnswerIsFinal
<1>. DEFINE Rest == <<spc, g_state, msgVars, invokeVars, evflag>>
            Final == UNCHANGED Rest /\ (evpc' # evpc => evpc = "return" /\ evpc' = "done")
<1>1. KInv /\ WakeInv /\ [KNext]_kprintfVars => [spc = "acked" => Final]_kprintfVars
  <2>. SUFFICES ASSUME KInv, WakeInv, KNext, spc = "acked"
                PROVE  Final
    OBVIOUS
  <2>1. evpc \in {"return", "done"} /\ g_state = "STOPPED" /\ fpc = "idle"
    BY DEF WakeInv, StopInv, Answered, Asked
  <2>2. ~KprintfQueues
    BY <2>1 DEF KprintfQueues, HandlerActive
  <2>3. ~InitStep
    BY DEF InitStep, InitCreate, InitStartThread, InitInstall, InitStarted, InitFails, CleanupDelete,
       CleanupEnds
  <2>4. ~Stop /\ ~StopStep
    BY DEF Stop, StopStep, StopUnregister, StopState, StopSet, StopAck, StopTimeout
  <2>5. EvStep => EvReturn
    BY <2>1 DEF EvStep, EvPoll, EvRegister, EvSetup, EvWait, EvSema, EvSemaFails, EvFlush, EvInvoke,
       EvInvoked, EvList, EvSignal, EvTerminate, FlushInvoked, FlushReadNext, FlushCheckHead,
       FlushRemove, FlushAdvance
  <2>6. CASE EvReturn
    BY <2>6 DEF EvReturn, handlerVars
  <2>7. ASSUME NEW t \in Thread,
               CallStarts(t) \/ CallAcquires(t) \/ CallFails(t) \/ CallGoesOn(t)
        PROVE  Final
    <3>1. UNCHANGED invokeVars
      BY <2>7 DEF CallStarts, CallAcquires, CallFails, CallGoesOn, RegisterCall, UnregisterCall, Acquire,
         AcquireFails, ApiStep, RegisterRefused, RegisterFind, RegisterCb, RegisterArg, UnregisterRefused,
         UnregisterCheck, UnregisterCb, UnregisterArg, Signal, Announce
    <3>. QED
      BY <2>2, <2>7, <3>1, CallsPrintOnly
  <2>8. CASE OtherInstalls
    BY <2>8 DEF OtherInstalls, handlerVars
  <2>9. ~InstallCall /\ ~KprintfCall
    BY <2>2 DEF InstallCall, KprintfCall, EndPc
  <2>. QED
    BY <2>3, <2>4, <2>5, <2>6, <2>7, <2>8, <2>9 DEF KNext
<1>. QED
  BY <1>1, KprintfInvariant, WakeInvariant, PTL DEF KSpec, AnswerIsFinal

-----------------------------------------------------------------------------
(***************************************************************************)
(* The library keeps the promise of its port.                              *)
(***************************************************************************)

\* The phases of the port, read off the state.
PortFacts ==
    /\ spc \in InitPc => PortPhase = "starting" /\ PortStop = "none"
    /\ spc = "failed" => PortPhase = "failed" /\ PortStop = "none"
    /\ spc \in {"resident", "stop_unregister", "stop_state"} => PortPhase = "open" /\ PortStop = "none"
    /\ spc \in {"stop_set", "stop_wait", "acked", "timedout"} =>
          PortPhase = IF Answered THEN "finished" ELSE "closed"
    /\ spc \in {"stop_set", "stop_wait"} => PortStop = "none"
    /\ spc = "acked" => Answered /\ PortStop = "answered"
    /\ spc = "timedout" => PortStop = "abandoned"
    /\ PortMissed => Asked

\* The two cases of the refinement mapping follow from the invariants.
LEMMA PhasesOfPort == KInv /\ WakeInv => PortFacts
<1>. SUFFICES ASSUME KInv, WakeInv PROVE PortFacts
  OBVIOUS
<1>. USE DEF KInv, WakeInv, PhaseInv, KRestOK, StopInv, Answered, Asked, InitPc, StopPc, EndPc
<1>1. Answered => Asked
  OBVIOUS
<1>2. spc \in InitPc => g_state = "STARTING" /\ ~Answered
  BY <1>1
<1>3. spc = "failed" => g_state = "STOPPED" /\ ~Answered
  BY <1>1
<1>4. spc \in {"resident", "stop_unregister", "stop_state"} => g_state = "STARTED" /\ ~Answered
  BY <1>1
<1>5. spc \in {"stop_set", "stop_wait", "acked", "timedout"} => g_state = "STOPPED"
  OBVIOUS
<1>6. spc = "acked" => Answered
  OBVIOUS
<1>7. PortMissed => Asked
  BY <1>1 DEF PortMissed
<1>. QED
  BY <1>2, <1>3, <1>4, <1>5, <1>6, <1>7 DEF PortFacts, PortPhase, PortStop

\* No blocks hold no messages.
LEMMA ContentsEmpty == Contents(<<>>) = <<>>
BY DEF Contents

\* Nothing is queued: the abstract queue is empty.
LEMMA NothingQueued == ListInv /\ used = {} => Queued = <<>>
<1>. SUFFICES ASSUME ListInv, used = {} PROVE Queued = <<>>
  OBVIOUS
<1>1. PICK p \in Seq(Addr) : ListShape(p)
  BY DEF ListInv
<1>2. p = <<>>
  BY <1>1 DEF ListShape, Blocks
<1>. QED
  BY <1>1, <1>2, QueueIsContents, ContentsEmpty

PortUnseen == UNCHANGED <<PortPhase, PortMissed, PortStop>>

\* A print is accepted while the port is open, and dropped otherwise.
LEMMA PrintSeen ==
    ASSUME KInv, KprintfQueues \/ KprintfDrops, g_state = "STARTED" => PortPhase = "open", PortUnseen
    PROVE  [Port!PortNext]_(Port!portVars)
<1>1. CASE KprintfDrops
  BY <1>1, FifoUnseen DEF KprintfDrops, Port!portVars, Fifo!fifoVars, PortUnseen
<1>2. CASE KprintfQueues
  <2>1. PICK b \in Body : Enqueue(b)
    BY <1>2 DEF KprintfQueues
  <2>2. Fifo!Accept(b) /\ PortPhase = "open"
    BY <1>2, <2>1, EnqueueIsAccept DEF KInv, KprintfQueues, HandlerActive
  <2>3. Port!PortAccepts(b)
    BY <2>2 DEF Port!PortAccepts, Port!Accept, Fifo!Accept, PortUnseen
  <2>. QED
    BY <2>3 DEF Port!PortNext
<1>. QED
  BY <1>1, <1>2

\* init opens the port, or fails without having accepted anything.
LEMMA InitSeen ==
    ASSUME KInv, PortFacts, PortFacts', InitStep
    PROVE  [Port!PortNext]_(Port!portVars)
<1>. USE DEF PortFacts, InitPc
<1>1. UNCHANGED Fifo!fifoVars
  BY FifoUnseen DEF InitStep, InitCreate, InitStartThread, InitInstall, InitStarted, InitFails,
     CleanupDelete, CleanupEnds
<1>2. PortMissed = FALSE /\ PortMissed' = FALSE
  <2>1. ~Asked /\ ~Asked'
    BY DEF InitStep, InitCreate, InitStartThread, InitInstall, InitStarted, InitFails, CleanupDelete,
       CleanupEnds, Asked
  <2>. QED
    BY <2>1 DEF PortMissed
<1>3. CASE InitStarted
  <2>1. PortPhase = "starting" /\ PortPhase' = "open" /\ UNCHANGED <<PortMissed, PortStop>>
    BY <1>3, <1>2 DEF InitStarted
  <2>. QED
    BY <1>1, <2>1 DEF Port!PortNext, Port!Open, Port!Become, Fifo!fifoVars
<1>4. CASE CleanupEnds
  <2>1. PortPhase = "starting" /\ PortPhase' = "failed" /\ UNCHANGED <<PortMissed, PortStop>> /\ used = {}
    BY <1>4, <1>2 DEF CleanupEnds, KInv, PhaseInv, Unused
  <2>. QED
    BY <1>1, <2>1, NothingQueued DEF KInv, Port!PortNext, Port!Fail, Port!Become, Fifo!fifoVars
<1>5. CASE InitCreate \/ InitStartThread \/ InitInstall \/ InitFails \/ CleanupDelete
  <2>1. spc \in InitPc /\ spc' \in InitPc
    BY <1>5 DEF InitCreate, InitStartThread, InitInstall, InitFails, CleanupDelete
  <2>. QED
    BY <1>1, <1>2, <2>1 DEF Port!portVars, Fifo!fifoVars
<1>. QED
  BY <1>3, <1>4, <1>5 DEF InitStep

\* _stop closes the port, and its answer comes when the events thread's work is finished.
LEMMA StopSeen ==
    ASSUME KInv, WakeInv, PortFacts, PortFacts', Stop \/ StopStep
    PROVE  [Port!PortNext]_(Port!portVars)
<1>. USE DEF PortFacts
<1>1. spc \in {"resident", "stop_unregister", "stop_state", "stop_set"} /\ UNCHANGED evpc =>
         PortMissed = FALSE /\ PortMissed' = FALSE
  <2>. SUFFICES ASSUME spc \in {"resident", "stop_unregister", "stop_state", "stop_set"}, UNCHANGED evpc
                PROVE  PortMissed = FALSE /\ PortMissed' = FALSE
    OBVIOUS
  <2>1. evpc # "terminate" /\ ~Answered
    BY DEF WakeInv, StopInv, Asked
  <2>. QED
    BY <2>1 DEF PortMissed, Answered
<1>2. CASE Stop
  <2>1. spc = "resident" /\ spc' = "stop_unregister" /\ UNCHANGED evpc
    BY <1>2 DEF Stop, handlerVars
  <2>2. PortPhase = "open" /\ PortPhase' = "open" /\ PortStop = "none" /\ PortStop' = "none"
    BY <2>1
  <2>3. PortUnseen
    BY <1>1, <2>1, <2>2 DEF PortUnseen
  <2>. QED
    BY <1>2, <2>2, <2>3, PrintSeen DEF Stop
<1>3. CASE StopState
  <2>1. UNCHANGED Fifo!fifoVars
    BY <1>3, FifoUnseen DEF StopState
  <2>2. PortPhase = "open" /\ ~Answered
    BY <1>3 DEF StopState, KInv, PhaseInv, WakeInv, StopInv, Asked
  <2>3. PortPhase' = "closed" /\ UNCHANGED <<PortMissed, PortStop>>
    BY <1>3, <1>1, <2>2 DEF StopState, Answered
  <2>. QED
    BY <2>1, <2>2, <2>3 DEF Port!PortNext, Port!Close, Port!Become, Fifo!fifoVars
<1>4. CASE StopUnregister \/ StopSet
  <2>1. UNCHANGED Fifo!fifoVars
    BY <1>4, FifoUnseen DEF StopUnregister, StopSet
  <2>2. /\ UNCHANGED evpc
        /\ \/ spc = "stop_unregister" /\ spc' = "stop_state"
           \/ spc = "stop_set" /\ spc' = "stop_wait"
    BY <1>4 DEF StopUnregister, StopSet, handlerVars
  <2>3. UNCHANGED PortPhase /\ UNCHANGED PortStop
    BY <2>2 DEF Answered
  <2>4. PortUnseen
    BY <1>1, <2>2, <2>3 DEF PortUnseen
  <2>. QED
    BY <2>1, <2>4 DEF PortUnseen, Port!portVars, Fifo!fifoVars
<1>5. CASE StopAck \/ StopTimeout
  <2>1. UNCHANGED Fifo!fifoVars /\ PortStop = "none" /\ UNCHANGED <<PortPhase, PortMissed>>
    BY <1>5, FifoUnseen DEF StopAck, StopTimeout, PortMissed, Answered
  <2>2. CASE StopAck
    <3>1. Answered /\ PortPhase = "finished" /\ PortStop' = "answered"
      BY <2>2 DEF StopAck, WakeInv, StopInv
    <3>. QED
      BY <2>1, <3>1 DEF Port!PortNext, Port!Answer, Fifo!fifoVars
  <2>3. CASE StopTimeout
    <3>1. PortPhase \in {"closed", "finished"} /\ PortStop' = "abandoned"
      BY <2>3 DEF StopTimeout
    <3>. QED
      BY <2>1, <3>1 DEF Port!PortNext, Port!GiveUp, Fifo!fifoVars
  <2>. QED
    BY <1>5, <2>2, <2>3
<1>. QED
  BY <1>2, <1>3, <1>4, <1>5 DEF StopStep

\* While the events thread works on a message the port is open or closed, not finished,
\* and the thread has got at the queue.
LEMMA WorkingPhase ==
    ASSUME KInv, WakeInv, PortFacts, evpc = "flush" \/ fpc # "idle"
    PROVE  PortPhase \in {"open", "closed"} /\ ~PortMissed
<1>1. evpc \in {"flush", "flushing"}
  BY DEF WakeInv
<1>2. spc \notin InitPc \cup {"failed"}
  BY <1>1 DEF KInv, PhaseInv
<1>. QED
  BY <1>1, <1>2 DEF PortFacts, PortMissed, Answered, KInv, KRestOK, InitPc, StopPc, EndPc

\* flush_messages passes messages on.
LEMMA FlushSeen ==
    ASSUME KInv, WakeInv, PortFacts, EvFlush \/ EvInvoked \/ EvList
    PROVE  [Port!PortNext]_(Port!portVars)
<1>1. FlushStep /\ (evpc = "flush" \/ fpc # "idle")
  BY DEF EvFlush, EvInvoked, EvList, FlushStep, FlushInvoked, FlushReadNext, FlushCheckHead,
     FlushRemove, FlushAdvance
<1>2. /\ UNCHANGED <<spc, g_state>>
      /\ evpc \in {"flush", "flushing"} /\ evpc' = "flushing"
  <2>1. CASE EvFlush
    BY <2>1 DEF EvFlush, handlerVars
  <2>2. CASE EvInvoked \/ EvList
    <3>1. UNCHANGED <<spc, g_state, evpc>> /\ fpc # "idle"
      BY <2>2 DEF EvInvoked, EvList, InvokeEnd, handlerVars, kVars, FlushInvoked, FlushReadNext,
         FlushCheckHead, FlushRemove, FlushAdvance
    <3>. QED
      BY <3>1 DEF WakeInv
  <2>. QED
    BY <2>1, <2>2
<1>3. PortUnseen
  BY <1>2 DEF PortUnseen, PortPhase, PortMissed, PortStop
<1>4. Fifo!Deliver \/ Fifo!Finish \/ UNCHANGED Fifo!fifoVars
  BY <1>1, FlushStepPasses DEF KInv
<1>5. PortPhase \in {"open", "closed"} /\ ~PortMissed
  BY <1>1, WorkingPhase
<1>6. CASE Fifo!Deliver
  BY <1>3, <1>5, <1>6 DEF PortUnseen, Fifo!Deliver, Port!PortNext, Port!PortPasses, Port!Deliver
<1>7. CASE Fifo!Finish
  BY <1>3, <1>5, <1>7 DEF PortUnseen, Fifo!Finish, Port!PortNext, Port!PortPasses, Port!Finish
<1>8. CASE UNCHANGED Fifo!fifoVars
  BY <1>3, <1>8 DEF PortUnseen, Fifo!fifoVars, Port!portVars
<1>. QED
  BY <1>4, <1>6, <1>7, <1>8

\* The thread's work ends with nothing in hand, and with an empty queue or after a
\* last wait for the semaphore that failed.
LEMMA TerminateSeen ==
    ASSUME KInv, WakeInv, PortFacts, PortFacts', EvTerminate
    PROVE  [Port!PortNext]_(Port!portVars)
<1>1. UNCHANGED Fifo!fifoVars
  BY FifoUnseen DEF EvTerminate
<1>2. fpc = "idle" /\ Asked
  BY DEF EvTerminate, WakeInv, StopInv
<1>3. PortPhase = "closed" /\ PortPhase' = "finished" /\ UNCHANGED PortStop
  BY <1>2 DEF PortFacts, EvTerminate, Asked, Answered
<1>4. UNCHANGED PortMissed
  BY DEF EvTerminate, PortMissed
<1>5. g_head = NULL \/ PortMissed
  BY DEF EvTerminate, WakeInv, StopInv, Drained, PortMissed
<1>6. Queued = <<>> \/ PortMissed
  BY <1>5, EmptyList, NothingQueued DEF KInv
<1>. QED
  BY <1>1, <1>2, <1>3, <1>4, <1>6 DEF Port!PortNext, Port!WorkEnds, Port!Become, Fifo!fifoVars, Current,
     OnMsg

\* A failed wait for the semaphore is seen when it is the last one.
LEMMA SemaFailsSeen ==
    ASSUME KInv, WakeInv, PortFacts, PortFacts', EvSemaFails
    PROVE  [Port!PortNext]_(Port!portVars)
<1>1. UNCHANGED Fifo!fifoVars
  BY FifoUnseen DEF EvSemaFails
<1>2. /\ UNCHANGED <<spc, g_state>> /\ SemaMayFail
      /\ evpc = "sema" /\ evpc' = AfterFlush
      /\ "FLUSH" \in evflag'
  BY DEF EvSemaFails, handlerVars
<1>3. UNCHANGED <<PortPhase, PortStop>>
  BY <1>2 DEF PortPhase, PortStop, AfterFlush
<1>4. CASE "TERMINATE" \in ev
  <2>1. Asked /\ ~Answered /\ fpc = "idle"
    BY <1>2, <1>4 DEF WakeInv, StopInv, Answered
  <2>2. PortPhase = "closed"
    BY <2>1 DEF PortFacts, Asked
  <2>3. PortMissed = FALSE /\ PortMissed' = TRUE
    BY <1>2, <1>4 DEF PortMissed, AfterFlush
  <2>4. Current = NoMsg
    BY <2>1 DEF Current, OnMsg
  <2>. QED
    BY <1>1, <1>2, <1>3, <2>2, <2>3, <2>4 DEF Port!PortNext, Port!Miss, Fifo!fifoVars
<1>5. CASE "TERMINATE" \notin ev
  <2>1. UNCHANGED PortMissed
    BY <1>2, <1>5 DEF PortMissed, AfterFlush
  <2>. QED
    BY <1>1, <1>3, <2>1 DEF Port!portVars, Fifo!fifoVars
<1>. QED
  BY <1>4, <1>5

\* Nothing else that the events thread does is seen, its return included.
LEMMA EventSeen ==
    ASSUME KInv, WakeInv, PortFacts, PortFacts', EvStep
    PROVE  [Port!PortNext]_(Port!portVars)
<1>1. CASE EvReturn
  <2>1. UNCHANGED Fifo!fifoVars
    BY <1>1, FifoUnseen DEF EvReturn
  <2>2. PortUnseen
    BY <1>1 DEF EvReturn, PortUnseen, PortPhase, PortMissed, PortStop, handlerVars
  <2>. QED
    BY <2>1, <2>2 DEF PortUnseen, Port!portVars, Fifo!fifoVars
<1>2. CASE EvInvoke
  <2>1. UNCHANGED Fifo!fifoVars
    BY <1>2, FifoUnseen DEF EvInvoke
  <2>2. UNCHANGED <<spc, g_state, evpc, evflag>>
    BY <1>2 DEF EvInvoke, InvokeBegin, InvokeTest, InvokeCall, CallbackReturns, kVars
  <2>. QED
    BY <2>1, <2>2 DEF PortPhase, PortMissed, PortStop, Port!portVars, Fifo!fifoVars
<1>3. CASE EvPoll \/ EvRegister \/ EvSetup \/ EvWait \/ EvSema \/ EvSignal
  <2>1. UNCHANGED Fifo!fifoVars
    BY <1>3, FifoUnseen DEF EvPoll, EvRegister, EvSetup, EvWait, EvSema, EvSignal
  <2>2. /\ UNCHANGED <<spc, g_state>>
        /\ evpc \notin {"terminate", "return", "done"} /\ evpc' \notin {"return", "done"}
    BY <1>3 DEF EvPoll, EvRegister, EvSetup, EvWait, EvSema, EvSignal, AfterFlush,
       handlerVars, FlushAcquire, FlushRelease
  <2>3. evpc' = "terminate" => "FLUSH" \notin evflag'
    BY <1>3 DEF EvPoll, EvRegister, EvSetup, EvWait, EvSema, EvSignal, AfterFlush, WakeInv, StopInv
  <2>4. UNCHANGED <<PortPhase, PortMissed, PortStop>>
    BY <2>2, <2>3 DEF PortPhase, PortMissed, PortStop
  <2>. QED
    BY <2>1, <2>4 DEF Port!portVars, Fifo!fifoVars
<1>. QED
  BY <1>1, <1>2, <1>3, FlushSeen, TerminateSeen, SemaFailsSeen DEF EvStep

\* API calls and other modules are seen only where they print.
LEMMA OthersSeen ==
    ASSUME KInv, WakeInv, PortFacts,
           UNCHANGED <<g_state, spc, evpc>>,
           UNCHANGED <<msgVars, evflag>> \/ KprintfQueues
    PROVE  [Port!PortNext]_(Port!portVars)
<1>1. UNCHANGED <<PortPhase, PortStop>>
  BY DEF PortPhase, PortStop
<1>2. CASE UNCHANGED <<msgVars, evflag>>
  BY <1>1, <1>2, FifoUnseen DEF PortMissed, Port!portVars, Fifo!fifoVars
<1>3. CASE KprintfQueues
  <2>1. g_state = "STARTED"
    BY <1>3 DEF KprintfQueues, HandlerActive
  <2>2. spc \in {"resident", "stop_unregister", "stop_state"}
    BY <2>1 DEF KInv, PhaseInv, KRestOK, WakeInv, StopInv, Answered, Asked, InitPc, StopPc, EndPc
  <2>3. evpc \notin {"terminate", "return", "done"}
    BY <2>2 DEF WakeInv, StopInv, Answered, Asked
  <2>4. PortUnseen
    BY <1>1, <2>3 DEF PortUnseen, PortMissed
  <2>. QED
    BY <1>3, <2>2, <2>4, PrintSeen DEF PortFacts
<1>. QED
  BY <1>2, <1>3

\* Every step of the library is a step of the port or not seen there.
LEMMA PortStep ==
    ASSUME KInv, WakeInv, KInv', WakeInv', [KNext]_kprintfVars
    PROVE  [Port!PortNext]_(Port!portVars)
<1>1. PortFacts /\ PortFacts'
  BY PhasesOfPort, PTL
<1>2. CASE KprintfCall
  BY <1>1, <1>2, OthersSeen DEF KprintfCall, handlerVars
<1>3. CASE InstallCall \/ OtherInstalls \/ UNCHANGED kprintfVars
  BY <1>1, <1>3, OthersSeen DEF InstallCall, OtherInstalls, kprintfVars, kVars, handlerVars
<1>4. ASSUME NEW t \in Thread,
             CallStarts(t) \/ CallAcquires(t) \/ CallFails(t) \/ CallGoesOn(t)
      PROVE  [Port!PortNext]_(Port!portVars)
  BY <1>1, <1>4, CallsPrintOnly, OthersSeen
<1>. QED
  BY <1>1, <1>2, <1>3, <1>4, InitSeen, StopSeen, EventSeen DEF KNext

\* The library implements its port, for every pool, table and number of threads,
\* with failing waits, other modules' handlers and a stop at any time: messages
\* are accepted only while the module is started, reach the handlers in order, and
\* _stop returns with an answer only when the queue was drained (or the last wait
\* for the semaphore failed) and nothing will be passed on any more.
THEOREM KprintfKeepsPort == KSpec => KeepsPort
<1>1. KInit => Port!PortInit
  <2>. SUFFICES ASSUME KInit PROVE Port!PortInit
    OBVIOUS
  <2>1. KInv /\ Fifo!FifoInit
    BY KInvInit, FifoStart DEF KInit
  <2>2. PortPhase = "starting" /\ PortMissed = FALSE /\ PortStop = "none"
    BY DEF KInit, TableInit, PortPhase, PortMissed, PortStop
  <2>. QED
    BY <2>1, <2>2 DEF Fifo!FifoInit, Port!PortInit, Port!FifoInit
<1>2. KInv /\ WakeInv /\ KInv' /\ WakeInv' /\ [KNext]_kprintfVars => [Port!PortNext]_(Port!portVars)
  BY PortStep
<1>. QED
  BY <1>1, <1>2, KprintfInvariant, WakeInvariant, PTL DEF KSpec, KeepsPort, Port!PortSpec
=============================================================================

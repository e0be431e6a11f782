---------------------------- MODULE KprintfProofs ----------------------------
(***************************************************************************)
(* Proofs about the library as a whole.  The invariants of the list and of *)
(* the handler table carry over, because every step of the library is one  *)
(* of their steps or leaves them alone.  What is added relates the phases  *)
(* of init and _stop to the kernel objects and to the events thread.       *)
(***************************************************************************)
EXTENDS Kprintf, MsgListProofs, HandlerTableProofs

\* Every step of the library is a step of msg.c or does not touch the list.
LEMMA KStepsList == [KNext]_kprintfVars => [MsgNext]_msgVars
<1>. SUFFICES ASSUME [KNext]_kprintfVars PROVE [MsgNext]_msgVars
  OBVIOUS
<1>1. KprintfQueues \/ KprintfDrops => [MsgNext]_msgVars
  BY DEF KprintfQueues, KprintfDrops, MsgNext
<1>2. CASE InitStep
  BY <1>2 DEF InitStep, InitCreate, InitStartThread, InitInstall, InitStarted, InitFails,
     CleanupDelete, CleanupEnds
<1>3. CASE Stop \/ StopStep
  BY <1>1, <1>3 DEF Stop, StopStep, StopUnregister, StopState, StopSet, StopAck, StopTimeout
<1>4. CASE EvStep
  BY <1>4 DEF EvStep, EvPoll, EvRegister, EvSetup, EvWait, EvSema, EvSemaFails, EvFlush,
     EvInvoke, EvInvoked, EvList, EvSignal, EvTerminate, EvReturn, MsgNext, FlushStep
<1>5. CASE KprintfCall
  BY <1>1, <1>5 DEF KprintfCall
<1>6. ASSUME NEW t \in Thread,
             CallStarts(t) \/ CallAcquires(t) \/ CallFails(t) \/ CallGoesOn(t)
      PROVE  [MsgNext]_msgVars
  BY <1>1, <1>6 DEF CallStarts, CallAcquires, CallFails, CallGoesOn
<1>7. CASE InstallCall \/ OtherInstalls
  BY <1>7 DEF InstallCall, OtherInstalls
<1>8. CASE UNCHANGED kprintfVars
  BY <1>8 DEF kprintfVars
<1>. QED
  BY <1>2, <1>3, <1>4, <1>5, <1>6, <1>7, <1>8 DEF KNext

\* The library uses the list as msg.c's model says.
THEOREM KprintfUsesList == KSpec => MsgInit /\ [][MsgNext]_msgVars
<1>1. KInit => MsgInit
  BY DEF KInit
<1>. QED
  BY <1>1, KStepsList, PTL DEF KSpec

\* The list's invariant holds in the whole library.
THEOREM KprintfListInvariant == KSpec => []ListInv
BY KprintfUsesList, ListInvInit, ListInvStep, PTL

\* In the whole library, too, the events thread never follows a freed block.
THEOREM KprintfNoUseAfterFree == KSpec => []NoUseAfterFree
<1>1. ListInv => NoUseAfterFree
  BY DEF ListInv, ListShape, FlusherOn, NoUseAfterFree, Blocks
<1>. QED
  BY <1>1, KprintfListInvariant, PTL

\* In the whole library, whatever the other threads do to it, an accepted message
\* is passed on once and in the order of arrival.
THEOREM KprintfImplementsFifo ==
    KSpec => Fifo!FifoInit /\ [][Fifo!FifoNext]_(Fifo!fifoVars)
BY KprintfUsesList, KprintfListInvariant, FifoStart, FifoStep, PTL

-----------------------------------------------------------------------------
AllObjects == objects = ObjectsUpTo(4)

\* Before the module is started, and after a failed start, nobody has used it.
Unused == used = {} /\ \A t \in Thread : pc[t] = "idle"

PhaseInv ==
    /\ spc \in InitPc => g_state = "STARTING"
    /\ spc = "failed" => g_state = "STOPPED"
    /\ spc \in {"resident", "stop_unregister", "stop_state"} => g_state = "STARTED"
    /\ spc \in InitPc \cup {"failed"} => Unused /\ evpc \in {"dormant", "poll"}
    /\ spc \in {"create", "start_thread", "failed"} => evpc = "dormant"
    /\ evpc # "dormant" => AllObjects
    /\ spc \in {"start_thread", "install", "started", "resident", "acked", "timedout"} \cup StopPc =>
          AllObjects
    /\ evpc \in {"dormant", "poll", "register"} => pc[EvThread] = "idle" /\ ipc = "idle"

KRestOK ==
    /\ spc \in InitPc \cup StopPc \cup EndPc \cup {"resident"}
    /\ \E i \in 0 .. 4 : objects = ObjectsUpTo(i)
    /\ khandler \in {"none", "ours", "other"}
    /\ evflag \subseteq EvBits
    /\ evpc \in EvPc
    /\ ev \subseteq EvBits

KInv == ListInv /\ TableInv /\ KRestOK /\ PhaseInv

\* The library before init satisfies the invariant.
LEMMA KInvInit == KInit => KInv
<1>. SUFFICES ASSUME KInit PROVE KInv
  OBVIOUS
<1>1. ListInv /\ TableInv
  BY ListInvInit, TableInvInit DEF KInit
<1>2. objects = ObjectsUpTo(0)
  BY DEF KInit, ObjectsUpTo
<1>3. KRestOK
  BY <1>2 DEF KInit, KRestOK, InitPc, EvPc, EvBits
<1>4. PhaseInv
  BY TableAssumption DEF KInit, TableInit, MsgInit, PhaseInv, InitPc, StopPc, Unused
<1>. QED
  BY <1>1, <1>3, <1>4 DEF KInv

\* Steps that leave the table alone keep its invariant.
LEMMA TableUnchanged == ASSUME TableInv, UNCHANGED handlerVars PROVE TableInv'
<1>1. g_state' \in State /\ UNCHANGED <<tableVars, semcount, callVars, invokeVars>>
  BY DEF handlerVars, TableInv, TableTypeOK
<1>. QED
  BY <1>1, ModuleStateKeeps

\* The library keeps the table's invariant: its steps are the table's steps, and
\* the events thread registers the default handler while it makes no other call.
LEMMA KStepsTable ==
    ASSUME TableInv, PhaseInv, [KNext]_kprintfVars
    PROVE  TableInv'
<1>1. CASE InitStep
  <2>1. ASSUME NEW s \in State, SetState(s)
        PROVE  TableInv'
    BY <2>1, ModuleStateKeeps DEF SetState
  <2>. QED
    BY <1>1, <2>1, TableUnchanged DEF InitStep, InitCreate, InitStartThread, InitInstall, InitStarted,
       InitFails, CleanupDelete, CleanupEnds, State
<1>2. CASE Stop \/ StopStep
  <2>1. ASSUME NEW s \in State, SetState(s)
        PROVE  TableInv'
    BY <2>1, ModuleStateKeeps DEF SetState
  <2>. QED
    BY <1>2, <2>1, TableUnchanged DEF Stop, StopStep, StopUnregister, StopState, StopSet, StopAck,
       StopTimeout, State
<1>3. CASE EvStep
  <2>1. CASE EvRegister
    <3>1. pc[EvThread] = "idle"
      BY <2>1 DEF EvRegister, PhaseInv
    <3>2. EvThread \in Thread /\ [cb |-> DefaultCb, arg |-> Stdout] \in Registration
      BY TableAssumption DEF Registration
    <3>. QED
      BY <2>1, <3>1, <3>2, CallEntersKeeps, TableUnchanged DEF EvRegister
  <2>2. CASE EvSema \/ EvInvoke \/ EvInvoked \/ EvSignal
    BY <2>2, FlushStepsKeep DEF EvSema, EvInvoke, EvInvoked, EvSignal, InvokeStep
  <2>3. CASE EvPoll \/ EvSetup \/ EvWait \/ EvSemaFails \/ EvFlush \/ EvList \/ EvTerminate \/ EvReturn
    BY <2>3, TableUnchanged DEF EvPoll, EvSetup, EvWait, EvSemaFails, EvFlush, EvList, EvTerminate, EvReturn
  <2>. QED
    BY <1>3, <2>1, <2>2, <2>3 DEF EvStep
<1>4. CASE KprintfCall \/ InstallCall \/ OtherInstalls
  BY <1>4, TableUnchanged DEF KprintfCall, InstallCall, OtherInstalls
<1>5. ASSUME NEW t \in Thread,
             CallStarts(t) \/ CallAcquires(t) \/ CallFails(t) \/ CallGoesOn(t)
      PROVE  TableInv'
  BY <1>5, CallsKeep, AcquireKeeps, CallEndsKeep, ApiStepKeeps DEF CallStarts, CallAcquires,
     CallFails, CallGoesOn
<1>6. CASE UNCHANGED kprintfVars
  BY <1>6, TableUnchanged DEF kprintfVars
<1>. QED
  BY <1>1, <1>2, <1>3, <1>4, <1>5, <1>6 DEF KNext

\* The first i objects are distinct sets for distinct i, and the thread is the last.
LEMMA ObjectsFacts ==
    /\ ObjectsUpTo(0) = {}
    /\ \A i \in 0 .. 4 : ObjectsUpTo(i) = ObjectsUpTo(4) <=> i = 4
    /\ \A i \in 0 .. 4 : CreateOrder[i] = "thread" /\ i > 0 <=> i = 4
<1>1. \A i \in 0 .. 4 : "thread" \in ObjectsUpTo(i) <=> i = 4
  BY DEF ObjectsUpTo, CreateOrder
<1>2. ObjectsUpTo(0) = {}
  BY DEF ObjectsUpTo
<1>3. \A i \in 0 .. 4 : CreateOrder[i] = "thread" /\ i > 0 <=> i = 4
  BY DEF CreateOrder
<1>. QED
  BY <1>1, <1>2, <1>3

\* init creates the objects before their users and deletes them after.
LEMMA InitStepPhase ==
    ASSUME KInv, InitStep
    PROVE  KRestOK' /\ PhaseInv'
<1>. USE DEF InitPc, StopPc, EndPc, EvPc, EvBits, AllObjects, Unused
<1>1. CASE InitCreate
  <2>1. PICK i \in 1 .. 4 :
          /\ objects' = ObjectsUpTo(i)
          /\ spc' = IF i = 4 THEN "start_thread" ELSE "create"
    BY <1>1 DEF InitCreate
  <2>. QED
    BY <1>1, <2>1 DEF InitCreate, KInv, KRestOK, PhaseInv, handlerVars, callVars, invokeVars, msgVars
<1>2. CASE InitStartThread \/ InitInstall \/ InitFails
  BY <1>2 DEF InitStartThread, InitInstall, InitFails, KInv, KRestOK, PhaseInv, handlerVars,
     callVars, invokeVars, msgVars
<1>3. CASE InitStarted
  BY <1>3 DEF InitStarted, SetState, KInv, KRestOK, PhaseInv, callVars, invokeVars, msgVars
<1>4. CASE CleanupDelete
  <2>1. PICK i \in 1 .. 4 :
          /\ objects = ObjectsUpTo(i)
          /\ objects' = ObjectsUpTo(i - 1)
          /\ evpc' = IF CreateOrder[i] = "thread" THEN "dormant" ELSE evpc
    BY <1>4 DEF CleanupDelete
  <2>2. evpc' = "dormant"
    <3>1. CASE evpc = "dormant"
      BY <2>1, <3>1
    <3>2. CASE evpc # "dormant"
      BY <2>1, <3>2, ObjectsFacts DEF KInv, PhaseInv
    <3>. QED
      BY <3>1, <3>2
  <2>3. i - 1 \in 0 .. 4
    BY <2>1
  <2>. QED
    BY <1>4, <2>1, <2>2, <2>3 DEF CleanupDelete, KInv, KRestOK, PhaseInv, handlerVars, callVars,
       invokeVars, msgVars
<1>5. CASE CleanupEnds
  <2>1. ObjectsUpTo(4) # {}
    BY ObjectsFacts
  <2>. QED
    BY <1>5, <2>1 DEF CleanupEnds, SetState, KInv, KRestOK, PhaseInv, callVars, invokeVars, msgVars
<1>. QED
  BY <1>1, <1>2, <1>3, <1>4, <1>5 DEF InitStep

\* _stop deletes nothing.
LEMMA StopStepPhase ==
    ASSUME KInv, Stop \/ StopStep
    PROVE  KRestOK' /\ PhaseInv'
<1>. USE DEF InitPc, StopPc, EndPc, EvPc, EvBits, AllObjects, Unused
<1>1. CASE Stop
  BY <1>1 DEF Stop, KprintfQueues, KprintfDrops, KInv, KRestOK, PhaseInv, handlerVars, callVars,
     invokeVars
<1>2. CASE StopState
  BY <1>2 DEF StopState, SetState, KInv, KRestOK, PhaseInv, callVars, invokeVars
<1>3. CASE StopUnregister \/ StopSet \/ StopAck \/ StopTimeout
  BY <1>3 DEF StopUnregister, StopSet, StopAck, StopTimeout, KInv, KRestOK, PhaseInv, handlerVars,
     callVars, invokeVars
<1>. QED
  BY <1>1, <1>2, <1>3 DEF StopStep

\* The events thread does nothing before the module is started.
LEMMA EvStepPhase ==
    ASSUME KInv, EvStep
    PROVE  KRestOK' /\ PhaseInv'
<1>. USE DEF InitPc, StopPc, EndPc, EvPc, EvBits, AllObjects, Unused
<1>1. CASE EvPoll
  BY <1>1 DEF EvPoll, KInv, KRestOK, PhaseInv, handlerVars, callVars, invokeVars, msgVars
<1>2. CASE EvRegister
  BY <1>2 DEF EvRegister, KInv, KRestOK, PhaseInv, msgVars
<1>3. CASE EvSetup \/ EvWait \/ EvSemaFails \/ EvTerminate \/ EvReturn
  <2>1. /\ UNCHANGED <<handlerVars, msgVars, spc, objects, khandler>>
        /\ evpc \in {"registering", "wait", "sema", "terminate", "return"}
        /\ evpc' \in {"wait", "sema", "terminate", "return", "done"}
        /\ evflag' \subseteq EvBits /\ ev' \subseteq EvBits
    BY <1>3 DEF EvSetup, EvWait, EvSemaFails, EvTerminate, EvReturn, AfterFlush, KInv, KRestOK
  <2>. QED
    BY <2>1 DEF KInv, KRestOK, PhaseInv, handlerVars, msgVars
<1>4. CASE EvSema \/ EvSignal
  BY <1>4 DEF EvSema, EvSignal, AfterFlush, FlushAcquire, FlushRelease, KInv, KRestOK, PhaseInv, msgVars
<1>5. CASE EvFlush
  <2>1. /\ UNCHANGED <<handlerVars, spc, objects, khandler, evflag, ev, used>>
        /\ evpc = "flush" /\ evpc' = "flushing"
    BY <1>5 DEF EvFlush, FlushBegin, listVars
  <2>. QED
    BY <2>1 DEF KInv, KRestOK, PhaseInv, handlerVars
<1>6. CASE EvInvoke \/ EvInvoked
  <2>1. ipc # "idle" /\ UNCHANGED <<g_state, kVars, used, pc>>
    BY <1>6 DEF EvInvoke, EvInvoked, InvokeBegin, InvokeTest, InvokeCall, CallbackReturns, InvokeEnd,
       FlushInvoked, listVars, msgVars, callVars
  <2>. QED
    BY <2>1 DEF KInv, KRestOK, PhaseInv, kVars
<1>7. CASE EvList
  <2>1. used' \subseteq used /\ UNCHANGED <<handlerVars, kVars>>
    BY <1>7 DEF EvList, FlushReadNext, FlushCheckHead, FlushRemove, RemoveDelete, FlushAdvance, listVars
  <2>. QED
    BY <2>1 DEF KInv, KRestOK, PhaseInv, kVars, handlerVars, callVars, invokeVars
<1>. QED
  BY <1>1, <1>2, <1>3, <1>4, <1>5, <1>6, <1>7 DEF EvStep

\* API calls exist only after the module was started.
LEMMA CallStepPhase ==
    ASSUME KInv,
           NEW t \in Thread,
           CallStarts(t) \/ CallAcquires(t) \/ CallFails(t) \/ CallGoesOn(t)
    PROVE  KRestOK' /\ PhaseInv'
<1>. USE DEF InitPc, StopPc, EndPc, EvPc, EvBits, AllObjects, Unused
<1>1. /\ UNCHANGED <<g_state, spc, objects, khandler, evpc, ev, ipc>>
      /\ \A u \in Thread : u # t => pc'[u] = pc[u]
      /\ \/ pc[t] = "idle" /\ g_state = "STARTED" /\ (t = EvThread => ipc = "callback") /\ UNCHANGED used
         \/ pc[t] # "idle"
  <2>1. CASE CallStarts(t)
    BY <2>1 DEF CallStarts, RegisterCall, UnregisterCall, EnterRegister, EnterUnregister, MayCall,
       invokeVars, kVars, msgVars, KInv, TableInv, TableTypeOK
  <2>2. CASE CallAcquires(t) \/ CallFails(t)
    BY <2>2 DEF CallAcquires, CallFails, Acquire, AcquireFails, invokeVars, kVars, msgVars, KInv,
       TableInv, TableTypeOK
  <2>3. CASE CallGoesOn(t)
    BY <2>3 DEF CallGoesOn, ApiStep, RegisterRefused, RegisterFind, RegisterCb, RegisterArg,
       UnregisterRefused, UnregisterCheck, UnregisterCb, UnregisterArg, Signal, Announce, GoTo,
       invokeVars, kVars, KInv, TableInv, TableTypeOK
  <2>. QED
    BY <2>1, <2>2, <2>3
<1>2. evflag' \subseteq EvBits
  BY DEF CallStarts, CallAcquires, CallFails, CallGoesOn, KprintfQueues, KprintfDrops, kVars, KInv,
     KRestOK
<1>3. KRestOK'
  BY <1>1, <1>2 DEF KInv, KRestOK
<1>4. g_state = "STARTED" \/ ~Unused
  BY <1>1
<1>5. spc \notin InitPc \cup {"failed"}
  BY <1>4 DEF KInv, PhaseInv
<1>6. evpc \in {"dormant", "poll", "register"} => pc'[EvThread] = "idle"
  BY <1>1, TableAssumption DEF KInv, PhaseInv
<1>7. PhaseInv'
  BY <1>1, <1>5, <1>6 DEF KInv, PhaseInv
<1>. QED
  BY <1>3, <1>7

\* Messages are queued only while the module is started.
LEMMA OtherStepPhase ==
    ASSUME KInv, KprintfCall \/ InstallCall \/ OtherInstalls \/ UNCHANGED kprintfVars
    PROVE  KRestOK' /\ PhaseInv'
<1>. USE DEF InitPc, StopPc, EndPc, EvPc, EvBits, AllObjects, Unused
<1>1. CASE KprintfCall
  BY <1>1 DEF KprintfCall, KprintfQueues, HandlerActive, KInv, KRestOK, PhaseInv, handlerVars,
     callVars, invokeVars
<1>2. CASE InstallCall \/ OtherInstalls \/ UNCHANGED kprintfVars
  BY <1>2 DEF InstallCall, OtherInstalls, kprintfVars, kVars, KInv, KRestOK, PhaseInv, handlerVars,
     callVars, invokeVars, msgVars
<1>. QED
  BY <1>1, <1>2

\* Every step of the library keeps the invariant.
LEMMA KInvStep == KInv /\ [KNext]_kprintfVars => KInv'
<1>. SUFFICES ASSUME KInv, [KNext]_kprintfVars PROVE KInv'
  OBVIOUS
<1>1. ListInv'
  BY KStepsList, ListInvStep DEF KInv
<1>2. TableInv'
  BY KStepsTable DEF KInv
<1>3. KRestOK' /\ PhaseInv'
  BY InitStepPhase, StopStepPhase, EvStepPhase, CallStepPhase, OtherStepPhase DEF KNext
<1>. QED
  BY <1>1, <1>2, <1>3 DEF KInv

\* The inductive invariant of the library.
THEOREM KprintfInvariant == KSpec => []KInv
BY KInvInit, KInvStep, PTL DEF KSpec

\* Every variable of the library keeps its type.
THEOREM KTypeCorrect == KSpec => []KTypeOK
<1>1. KInv => KTypeOK
  BY DEF KInv, KTypeOK, KRestOK, TableInv, ListInv
<1>. QED
  BY <1>1, KprintfInvariant, PTL

\* init and its clean-up never leave the events thread, a message, an API call or
\* the active Kprintf handler without the kernel objects they use.
THEOREM KprintfObjectsLive == KSpec => []ObjectsLive
<1>1. KInv => ObjectsLive
  BY DEF KInv, PhaseInv, KRestOK, ObjectsLive, AllObjects, Unused, HandlerActive, InitPc, StopPc, EndPc
<1>. QED
  BY <1>1, KprintfInvariant, PTL

\* In the whole library, too, a handler stays registered while it runs.
THEOREM KprintfRunningRegistered == KSpec => []RunningIsRegistered
<1>1. TableInv => RunningIsRegistered
  BY TableInvImpliesRunning
<1>2. KInv => TableInv
  BY DEF KInv
<1>. QED
  BY <1>1, <1>2, KprintfInvariant, PTL

\* In the whole library, too, no sequence of calls leaks a slot or strands the
\* default index, the registration of the default handler by the events thread and
\* calls that outlive the stop of the module included.
THEOREM KprintfTableConsistent == KSpec => []TableConsistent
<1>1. KInv => TableConsistent
  BY TableInvImpliesConsistent DEF KInv
<1>. QED
  BY <1>1, KprintfInvariant, PTL

\* In the whole library, too, the result of a call is true of the table.
THEOREM KprintfResultsHold == KSpec => []ResultsHold
<1>1. KInv => ResultsHold
  BY DEF KInv, TableInv
<1>. QED
  BY <1>1, KprintfInvariant, PTL

-----------------------------------------------------------------------------
\* Steps of the library are steps of handler.c's model, except that init and
\* _stop set g_state and that the events thread calls the API outside a handler.
LEMMA KStepsCalls ==
    [KNext]_kprintfVars =>
       \/ [TableNext]_handlerVars
       \/ EvRegister
       \/ UNCHANGED <<tableVars, semcount, callVars, invokeVars>>
<1>. SUFFICES ASSUME [KNext]_kprintfVars
              PROVE  \/ [TableNext]_handlerVars
                     \/ EvRegister
                     \/ UNCHANGED <<tableVars, semcount, callVars, invokeVars>>
  OBVIOUS
<1>1. CASE InitStep
  BY <1>1 DEF InitStep, InitCreate, InitStartThread, InitInstall, InitStarted, InitFails,
     CleanupDelete, CleanupEnds, SetState
<1>2. CASE Stop \/ StopStep
  BY <1>2 DEF Stop, StopStep, StopUnregister, StopState, StopSet, StopAck, StopTimeout, SetState
<1>3. CASE EvStep
  BY <1>3 DEF EvStep, EvPoll, EvSetup, EvWait, EvSema, EvSemaFails, EvFlush, EvInvoke, EvInvoked,
     EvList, EvSignal, EvTerminate, EvReturn, TableNext, InvokeStep
<1>4. CASE KprintfCall \/ InstallCall \/ OtherInstalls
  BY <1>4 DEF KprintfCall, InstallCall, OtherInstalls
<1>5. ASSUME NEW t \in Thread,
             CallStarts(t) \/ CallAcquires(t) \/ CallFails(t) \/ CallGoesOn(t)
      PROVE  TableNext
  BY <1>5 DEF CallStarts, CallAcquires, CallFails, CallGoesOn, TableNext
<1>6. CASE UNCHANGED kprintfVars
  BY <1>6 DEF kprintfVars
<1>. QED
  BY <1>1, <1>2, <1>3, <1>4, <1>5, <1>6 DEF KNext

\* The events thread is in its flush exactly when it works under the semaphore.
InFlush == {"flush", "flushing"}

EventsInv ==
    /\ Held
    /\ ipc # "idle" => evpc \in InFlush
    /\ evpc # "registering" => pc[EvThread] = "idle"

\* While handlers do not call the API, the one call the events thread makes is that
\* of register_default_handler, before its first flush.
LEMMA EventsStep ==
    ASSUME ~CallbackApi
    PROVE  KInv /\ EventsInv /\ [KNext]_kprintfVars => EventsInv'
<1>. SUFFICES ASSUME KInv, EventsInv, [KNext]_kprintfVars PROVE EventsInv'
  OBVIOUS
<1>1. Held'
  <2>1. CASE [TableNext]_handlerVars
    BY <2>1, HeldStep DEF KInv, EventsInv
  <2>2. CASE UNCHANGED <<tableVars, semcount, callVars, invokeVars>>
    BY <2>2 DEF EventsInv, Held, callVars, invokeVars
  <2>3. CASE EvRegister
    <3>1. pc \in [Thread -> CallPc] /\ pc[EvThread] = "idle"
      BY <2>3 DEF KInv, TableInv, TableTypeOK, PhaseInv, EvRegister
    <3>2. UNCHANGED <<semcount, ipc>> /\ (UNCHANGED pc \/ pc' = [pc EXCEPT ![EvThread] = "reg_wait"])
      BY <2>3 DEF EvRegister, EnterRegister, handlerVars, callVars, invokeVars
    <3>. QED
      BY <3>1, <3>2 DEF EventsInv, Held, LockedPc, RegisterPc, UnregisterPc
  <2>. QED
    BY <2>1, <2>2, <2>3, KStepsCalls
<1>2. CASE UNCHANGED <<evpc, ipc>> /\ ~EvStep
  <2>1. evpc # "registering" => pc'[EvThread] = "idle"
    BY <1>2, KStepsCalls, EventsThreadCallsNothing DEF KInv, EventsInv, EvStep, callVars
  <2>. QED
    BY <1>1, <1>2, <2>1 DEF EventsInv
<1>3. CASE InitStep
  <2>1. /\ spc \in InitPc /\ UNCHANGED <<ipc, pc>>
        /\ evpc' = evpc \/ evpc' \in {"dormant", "poll"}
    BY <1>3 DEF InitStep, InitCreate, InitStartThread, InitInstall, InitStarted, InitFails,
       CleanupDelete, CleanupEnds, InitPc, SetState, handlerVars, callVars, invokeVars
  <2>2. ipc = "idle" /\ pc[EvThread] = "idle"
    BY <2>1 DEF KInv, PhaseInv
  <2>. QED
    BY <1>1, <2>1, <2>2 DEF EventsInv
<1>4. CASE EvStep
  <2>1. CASE EvRegister
    BY <1>1, <2>1 DEF EvRegister, EventsInv, InFlush, handlerVars, invokeVars
  <2>2. CASE EvPoll \/ EvSetup \/ EvWait \/ EvSemaFails \/ EvTerminate \/ EvReturn
    BY <1>1, <2>2 DEF EvPoll, EvSetup, EvWait, EvSemaFails, EvTerminate, EvReturn, EventsInv, InFlush, handlerVars,
       callVars, invokeVars
  <2>3. CASE EvSema \/ EvFlush \/ EvSignal
    BY <1>1, <2>3 DEF EvSema, EvFlush, EvSignal, AfterFlush, FlushAcquire, FlushRelease, EventsInv, InFlush,
       handlerVars, callVars, invokeVars
  <2>4. CASE EvInvoke \/ EvInvoked \/ EvList
    <3>1. UNCHANGED <<evpc, pc>> /\ (ipc = "idle" => ipc' = "idle")
      BY <2>4 DEF EvInvoke, EvInvoked, EvList, InvokeBegin, InvokeTest, InvokeCall, CallbackReturns, InvokeEnd,
         kVars, handlerVars, callVars, invokeVars
    <3>. QED
      BY <1>1, <3>1 DEF EventsInv
  <2>. QED
    BY <1>4, <2>1, <2>2, <2>3, <2>4 DEF EvStep
<1>5. CASE Stop \/ StopStep \/ KprintfCall \/ InstallCall \/ OtherInstalls \/ UNCHANGED kprintfVars
  <2>1. UNCHANGED <<evpc, ipc, pc>>
    BY <1>5 DEF Stop, StopStep, StopUnregister, StopState, StopSet, StopAck, StopTimeout, KprintfCall,
       InstallCall, OtherInstalls, SetState, kprintfVars, kVars, handlerVars, callVars, invokeVars
  <2>. QED
    BY <1>1, <2>1 DEF EventsInv
<1>6. ASSUME NEW t \in Thread,
             CallStarts(t) \/ CallAcquires(t) \/ CallFails(t) \/ CallGoesOn(t)
      PROVE  UNCHANGED <<evpc, ipc>>
  BY <1>6 DEF CallStarts, CallAcquires, CallFails, CallGoesOn, RegisterCall, UnregisterCall, Acquire,
     AcquireFails, ApiStep, RegisterRefused, RegisterFind, RegisterCb, RegisterArg, UnregisterRefused,
     UnregisterCheck, UnregisterCb, UnregisterArg, Signal, Announce, kVars, invokeVars
<1>. QED
  BY <1>2, <1>3, <1>4, <1>5, <1>6 DEF KNext

\* In the whole library, too, whoever has the semaphore can go on, unless handlers
\* call the API: also while the events thread registers the default handler.
THEOREM KprintfHolderRuns ==
    ASSUME ~CallbackApi
    PROVE  KSpec => []HolderRuns
<1>1. KInit => EventsInv
  BY TableAssumption DEF KInit, TableInit, EventsInv, Held
<1>2. EventsInv => HolderRuns
  BY DEF EventsInv, Held, HolderRuns, Waiting, InFlush
<1>. QED
  BY <1>1, <1>2, EventsStep, KprintfInvariant, PTL DEF KSpec

\* The registry does not see the events thread enter its own call, nor a change of
\* g_state.
LEMMA OwnCallUnseen ==
    ASSUME KInv, EvRegister \/ UNCHANGED <<tableVars, semcount, callVars, invokeVars>>
    PROVE  UNCHANGED <<RegView, invokeVars>>
<1>1. UNCHANGED <<g_handlers, invokeVars, index>>
  BY DEF EvRegister, EnterRegister, handlerVars, tableVars, callVars
<1>2. \A u \in Thread : pc'[u] = "reg_arg" <=> pc[u] = "reg_arg"
  <2>1. EvRegister => pc[EvThread] = "idle"
    BY DEF KInv, PhaseInv, EvRegister
  <2>. QED
    BY <2>1 DEF EvRegister, EnterRegister, handlerVars, callVars, KInv, TableInv, TableTypeOK
<1>. QED
  BY <1>1, <1>2, CallStepsUnseen

\* In the whole library, too, calls take effect at once and between messages, and
\* a message visits the handlers that were registered when its turn came.
THEOREM KprintfImplementsRegistry == KSpec => TableRefinesRegistry
<1>1. KInit => RegistryInv /\ Registry!RegistryInit
  BY TableInvInit, RegistryStart DEF KInit
<1>2. KInv /\ RegistryInv /\ [KNext]_kprintfVars =>
         RegistryInv' /\ [Registry!RegistryNext]_(Registry!registryVars)
  <2>. SUFFICES ASSUME KInv, RegistryInv, [KNext]_kprintfVars
                PROVE  RegistryInv' /\ [Registry!RegistryNext]_(Registry!registryVars)
    OBVIOUS
  <2>1. CASE [TableNext]_handlerVars
    BY <2>1, RegistryInvStep, RegistryStep
  <2>2. TableInv'
    BY KInvStep DEF KInv
  <2>3. ASSUME UNCHANGED RegView
        PROVE  UNCHANGED Registry!registryVars
    BY <2>3 DEF RegView, Registry!registryVars, ViewTable, ViewLeft, Inside
  <2>4. CASE EvRegister \/ UNCHANGED <<tableVars, semcount, callVars, invokeVars>>
    <3>1. UNCHANGED <<RegView, invokeVars>>
      BY <2>4, OwnCallUnseen
    <3>2. NoCallback'
      BY <3>1 DEF RegistryInv, NoCallback, invokeVars
    <3>. QED
      BY <2>2, <2>3, <3>1, <3>2 DEF RegistryInv
  <2>. QED
    BY <2>1, <2>4, KStepsCalls
<1>. QED
  BY <1>1, <1>2, KprintfInvariant, PTL DEF KSpec, TableRefinesRegistry, Registry!RegistrySpec

-----------------------------------------------------------------------------
(***************************************************************************)
(* The queue and the registry together: who holds the semaphore, and where *)
(* in the flush of a message the handlers run.                             *)
(***************************************************************************)
ServiceInv ==
    /\ NoCallback
    /\ Inside => fpc = "invoke"
    /\ fpc # "idle" => evpc = "flushing"
    /\ evpc \in InFlush <=> ipc # "idle"

\* Only the events thread moves the flush and the loop over the handlers.
LEMMA ServiceInvStep ==
    ASSUME KInv, ServiceInv, [KNext]_kprintfVars
    PROVE  ServiceInv'
<1>. USE DEF InFlush, Inside, NoCallback, ServiceInv
<1>1. ASSUME UNCHANGED <<fpc, evpc, ipc, running>>
      PROVE  ServiceInv'
  BY <1>1
<1>2. KprintfQueues \/ KprintfDrops => UNCHANGED fpc
  BY DEF KprintfQueues, KprintfDrops, Enqueue, flushVars, msgVars
<1>3. CASE InitStep
  <2>1. UNCHANGED <<fpc, ipc, running>>
    BY <1>3 DEF InitStep, InitCreate, InitStartThread, InitInstall, InitStarted, InitFails,
       CleanupDelete, CleanupEnds, SetState, msgVars, handlerVars, invokeVars
  <2>2. spc \in InitPc /\ evpc \in {"dormant", "poll"}
    BY <1>3 DEF InitStep, InitCreate, InitStartThread, InitInstall, InitStarted, InitFails,
       CleanupDelete, CleanupEnds, KInv, PhaseInv, InitPc
  <2>3. evpc' \in {"dormant", "poll"}
    BY <1>3, <2>2 DEF InitStep, InitCreate, InitStartThread, InitInstall, InitStarted, InitFails,
       CleanupDelete, CleanupEnds
  <2>. QED
    BY <2>1, <2>2, <2>3
<1>4. CASE Stop \/ StopStep
  <2>1. UNCHANGED <<fpc, evpc, ipc, running>>
    BY <1>2, <1>4 DEF Stop, StopStep, StopUnregister, StopState, StopSet, StopAck, StopTimeout,
       SetState, msgVars, kVars, handlerVars, invokeVars
  <2>. QED
    BY <1>1, <2>1
<1>5. CASE EvStep
  <2>1. CASE EvPoll \/ EvRegister \/ EvSetup \/ EvWait \/ EvSemaFails \/ EvTerminate \/ EvReturn
    BY <2>1 DEF EvPoll, EvRegister, EvSetup, EvWait, EvSemaFails, EvTerminate, EvReturn, EnterRegister,
       AfterFlush, msgVars, handlerVars, invokeVars
  <2>2. CASE EvSema \/ EvSignal
    BY <2>2 DEF EvSema, EvSignal, FlushAcquire, FlushRelease, AfterFlush, msgVars
  <2>3. CASE EvFlush
    BY <2>3 DEF EvFlush, FlushBegin, handlerVars, invokeVars
  <2>4. CASE EvInvoke
    BY <2>4 DEF EvInvoke, InvokeBegin, InvokeTest, InvokeCall, CallbackReturns, msgVars, kVars
  <2>5. CASE EvInvoked
    BY <2>5 DEF EvInvoked, FlushInvoked, InvokeEnd, kVars
  <2>6. CASE EvList
    BY <2>6 DEF EvList, FlushReadNext, FlushCheckHead, FlushRemove, FlushAdvance, handlerVars,
       invokeVars, kVars
  <2>. QED
    BY <1>5, <2>1, <2>2, <2>3, <2>4, <2>5, <2>6 DEF EvStep
<1>6. CASE KprintfCall \/ InstallCall \/ OtherInstalls \/ UNCHANGED kprintfVars
  <2>1. UNCHANGED <<fpc, evpc, ipc, running>>
    BY <1>2, <1>6 DEF KprintfCall, InstallCall, OtherInstalls, kprintfVars, kVars, msgVars,
       handlerVars, invokeVars
  <2>. QED
    BY <1>1, <2>1
<1>7. ASSUME NEW t \in Thread,
             CallStarts(t) \/ CallAcquires(t) \/ CallFails(t) \/ CallGoesOn(t)
      PROVE  ServiceInv'
  <2>1. UNCHANGED <<ipc, running>>
    BY <1>7 DEF CallStarts, CallAcquires, CallFails, CallGoesOn, RegisterCall, UnregisterCall,
       Acquire, AcquireFails, Announce, ApiStep, RegisterRefused, RegisterFind, RegisterCb,
       RegisterArg, UnregisterRefused, UnregisterCheck, UnregisterCb, UnregisterArg, Signal,
       invokeVars
  <2>2. UNCHANGED <<fpc, evpc>>
    BY <1>2, <1>7 DEF CallStarts, CallAcquires, CallFails, CallGoesOn, msgVars, kVars
  <2>. QED
    BY <1>1, <2>1, <2>2
<1>. QED
  BY <1>3, <1>4, <1>5, <1>6, <1>7 DEF KNext

\* Which steps of the list start and finish a message, and which are not seen.
LEMMA FlushBySteps ==
    ASSUME ListInv, FlushStep
    PROVE  /\ FlushRemove => Fifo!Finish
           /\ FlushBegin \/ FlushAdvance => Current = NoMsg /\ (Fifo!Deliver \/ UNCHANGED Fifo!fifoVars)
           /\ FlushInvoked \/ FlushReadNext \/ FlushCheckHead => UNCHANGED Fifo!fifoVars /\ fpc' \in OnMsg
<1>1. Fifo!Deliver \/ Fifo!Finish \/ UNCHANGED Fifo!fifoVars
  BY FlushStepPasses
<1>2. fpc \in OnMsg => m \in Addr /\ g_head = m
  BY DEF ListInv, ListShape, FlusherOn, IsChain
<1>3. fpc \in OnMsg => Current = body[m] /\ Current # NoMsg
  BY <1>2, MsgAssumption DEF Current, ListInv, MsgTypeOK
<1>4. fpc \notin OnMsg => Current = NoMsg
  BY DEF Current
<1>5. CASE FlushRemove
  <2>1. Current # NoMsg /\ Current' = NoMsg
    BY <1>3, <1>5 DEF FlushRemove, Current, OnMsg
  <2>. QED
    BY <1>1, <1>5, <2>1 DEF Fifo!Deliver, Fifo!fifoVars, FlushRemove, FlushBegin, FlushAdvance,
       FlushInvoked, FlushReadNext, FlushCheckHead
<1>6. CASE FlushBegin \/ FlushAdvance
  <2>1. Current = NoMsg /\ fpc \in {"idle", "advance"}
    BY <1>4, <1>6 DEF FlushBegin, FlushAdvance, OnMsg
  <2>. QED
    BY <1>1, <2>1 DEF Fifo!Finish, FlushRemove, FlushInvoked, FlushReadNext, FlushCheckHead
<1>7. CASE FlushInvoked \/ FlushReadNext \/ FlushCheckHead
  <2>1. fpc \in OnMsg /\ fpc' \in OnMsg /\ UNCHANGED <<m, body>>
    BY <1>2, <1>7, MsgAssumption DEF FlushInvoked, FlushReadNext, FlushCheckHead, OnMsg, listVars
  <2>2. Current # NoMsg /\ Current' = Current
    BY <1>3, <2>1 DEF Current
  <2>. QED
    BY <1>1, <1>7, <2>1, <2>2 DEF Fifo!Deliver, Fifo!Finish, FlushInvoked, FlushReadNext,
       FlushCheckHead, FlushBegin, FlushAdvance, FlushRemove
<1>. QED
  BY <1>5, <1>6, <1>7 DEF FlushStep

\* Which steps of the loop over the handlers show a message, and which go on with it.
LEMMA InvokeBySteps ==
    ASSUME RegistryInv
    PROVE  /\ InvokeBegin => Registry!Show
           /\ InvokeTest \/ InvokeCall \/ CallbackReturns \/ InvokeEnd =>
                 \/ UNCHANGED RegView
                 \/ \E i \in Index : Registry!Run(i)
                 \/ Registry!Return
                 \/ Registry!Leave
           /\ FlushAcquire \/ FlushRelease => UNCHANGED RegView
<1>1. ASSUME FlushAcquire \/ InvokeBegin \/ InvokeStep \/ FlushRelease
      PROVE  \/ UNCHANGED RegView
             \/ Registry!Show
             \/ \E i \in Index : Registry!Run(i)
             \/ Registry!Return
             \/ Registry!Leave
  BY <1>1, InvokeFollowsRegistry
<1>2. ASSUME InvokeBegin
      PROVE  Registry!Show
  <2>1. ~Inside /\ Inside' /\ running = Free
    BY <1>2 DEF InvokeBegin, Inside, RegistryInv, NoCallback
  <2>. QED
    BY <1>1, <1>2, <2>1 DEF RegView, Registry!Run, Registry!Return, Registry!Leave
<1>3. ASSUME InvokeStep
      PROVE  ~Registry!Show
  <2>1. Inside
    BY <1>3 DEF InvokeStep, InvokeTest, InvokeCall, CallbackReturns, InvokeEnd, Inside
  <2>. QED
    BY <2>1 DEF Registry!Show
<1>4. ASSUME FlushAcquire \/ FlushRelease
      PROVE  UNCHANGED RegView
  <2>1. ~Inside /\ ~Inside' /\ running = Free
    BY <1>4 DEF FlushAcquire, FlushRelease, Inside, RegistryInv, NoCallback
  <2>. QED
    BY <1>1, <1>4, <2>1 DEF Registry!Show, Registry!Run, Registry!Return, Registry!Leave
<1>. QED
  BY <1>1, <1>2, <1>3, <1>4 DEF InvokeStep

\* Neither the queue nor the registry moves, or only the queue takes a message.
LEMMA PrintServed ==
    ASSUME KInv, UNCHANGED <<RegView, fpc>>,
           UNCHANGED msgVars \/ KprintfQueues \/ KprintfDrops
    PROVE  [Service!ServiceNext]_(Service!serviceVars)
<1>1. UNCHANGED <<Service!registryVars, ShownNow>>
  BY DEF RegView, Service!registryVars, ShownNow
<1>2. CASE UNCHANGED msgVars \/ KprintfDrops
  <2>1. UNCHANGED msgVars
    BY <1>2 DEF KprintfDrops
  <2>2. UNCHANGED Fifo!fifoVars
    BY <2>1, FifoUnseen
  <2>. QED
    BY <1>1, <2>2 DEF Service!serviceVars, Service!registryVars, Fifo!fifoVars
<1>3. CASE KprintfQueues
  <2>1. PICK b \in Body : Enqueue(b)
    BY <1>3 DEF KprintfQueues
  <2>2. Fifo!Accept(b)
    BY <2>1, EnqueueIsAccept DEF KInv
  <2>3. Service!Accepted
    BY <1>1, <2>2 DEF Service!Accepted, Service!Accept, Fifo!Accept
  <2>. QED
    BY <2>3 DEF Service!ServiceNext
<1>. QED
  BY <1>2, <1>3

\* The turn of a message comes outside the loop over the handlers, and it is removed
\* after the loop.
LEMMA FlushServed ==
    ASSUME KInv, ServiceInv, EvFlush \/ EvList
    PROVE  [Service!ServiceNext]_(Service!serviceVars)
<1>. USE DEF ShownNow
<1>1. UNCHANGED RegView
  BY CallStepsUnseen DEF EvFlush, EvList, handlerVars, callVars, invokeVars, tableVars
<1>2. UNCHANGED Service!registryVars
  BY <1>1 DEF RegView, Service!registryVars
<1>3. FlushStep /\ ~Inside /\ ~Inside'
  BY <1>1 DEF EvFlush, EvList, FlushStep, ServiceInv, RegView, FlushBegin, FlushReadNext, FlushCheckHead,
     FlushRemove, FlushAdvance
<1>4. /\ FlushRemove => Fifo!Finish
      /\ FlushBegin \/ FlushAdvance => Current = NoMsg /\ (Fifo!Deliver \/ UNCHANGED Fifo!fifoVars)
      /\ FlushInvoked \/ FlushReadNext \/ FlushCheckHead => UNCHANGED Fifo!fifoVars /\ fpc' \in OnMsg
  BY <1>3, FlushBySteps DEF KInv
<1>5. CASE FlushRemove
  <2>1. ShownNow = TRUE /\ ShownNow' = FALSE
    BY <1>3, <1>5 DEF FlushRemove
  <2>. QED
    BY <1>2, <1>3, <1>4, <1>5, <2>1 DEF Fifo!Finish, Service!Finish, Service!RemoveIt, Service!ServiceNext
<1>6. CASE FlushBegin \/ FlushAdvance
  <2>1. ShownNow = FALSE /\ ShownNow' = FALSE
    BY <1>3, <1>6 DEF FlushBegin, FlushAdvance
  <2>2. CASE Fifo!Deliver
    BY <1>2, <2>1, <2>2 DEF Fifo!Deliver, Service!Deliver, Service!TurnComes, Service!ServiceNext
  <2>3. CASE UNCHANGED Fifo!fifoVars
    BY <1>2, <2>1, <2>3 DEF Service!serviceVars, Service!registryVars, Fifo!fifoVars
  <2>. QED
    BY <1>4, <1>6, <2>2, <2>3
<1>7. CASE FlushReadNext \/ FlushCheckHead
  <2>1. ShownNow = TRUE /\ ShownNow' = TRUE
    BY <1>3, <1>4, <1>7 DEF FlushReadNext, FlushCheckHead, OnMsg
  <2>. QED
    BY <1>2, <1>4, <1>7, <2>1 DEF Service!serviceVars, Service!registryVars, Fifo!fifoVars
<1>. QED
  BY <1>5, <1>6, <1>7 DEF EvFlush, EvList

\* The loop runs once for a message, and to its end.
LEMMA InvokeServed ==
    ASSUME KInv, ServiceInv, EvInvoke \/ EvInvoked
    PROVE  [Service!ServiceNext]_(Service!serviceVars)
<1>. USE DEF ShownNow
<1>1. RegistryInv
  BY DEF KInv, ServiceInv, RegistryInv
<1>2. fpc = "invoke" /\ fpc' \in {"invoke", "next"} /\ Current # NoMsg
  <2>1. m \in Addr /\ fpc = "invoke"
    BY DEF EvInvoke, EvInvoked, FlushInvoked, KInv, ListInv, ListShape, FlusherOn, IsChain, OnMsg
  <2>. QED
    BY <2>1, MsgAssumption DEF EvInvoke, EvInvoked, FlushInvoked, Current, OnMsg, KInv, ListInv,
       MsgTypeOK, msgVars
<1>3. UNCHANGED Service!fifoVars
  <2>1. CASE EvInvoke
    BY <2>1, FifoUnseen DEF EvInvoke, Fifo!fifoVars, Service!fifoVars
  <2>2. CASE EvInvoked
    BY <2>2, FlushBySteps DEF EvInvoked, FlushStep, KInv, Fifo!fifoVars, Service!fifoVars
  <2>. QED
    BY <2>1, <2>2
<1>4. CASE InvokeBegin
  <2>1. Registry!Show /\ fpc' = "invoke"
    BY <1>1, <1>4, InvokeBySteps DEF EvInvoke, EvInvoked, InvokeBegin, InvokeEnd, msgVars
  <2>2. ShownNow = FALSE /\ ShownNow' = TRUE
    BY <1>2, <2>1 DEF Registry!Show
  <2>. QED
    BY <1>2, <1>3, <2>1, <2>2 DEF Registry!Show, Service!Show, Service!Slots, Registry!Slots,
       Service!ShowIt, Service!ServiceNext
<1>5. CASE InvokeTest \/ InvokeCall \/ CallbackReturns \/ InvokeEnd
  <2>1. ShownNow = TRUE /\ ShownNow' = TRUE
    BY <1>2, <1>5 DEF EvInvoke, EvInvoked, FlushInvoked, InvokeBegin, InvokeTest, InvokeCall,
       CallbackReturns, InvokeEnd, Inside
  <2>2. \/ UNCHANGED RegView
        \/ \E i \in Index : Registry!Run(i)
        \/ Registry!Return
        \/ Registry!Leave
    BY <1>1, <1>5, InvokeBySteps
  <2>3. CASE UNCHANGED RegView
    BY <1>3, <2>1, <2>3 DEF RegView, Service!serviceVars, Service!fifoVars
  <2>4. CASE \E i \in Index : Registry!Run(i)
    BY <1>2, <1>3, <2>1, <2>4 DEF Registry!Run, Service!Run, Index, Service!Slots, Service!HandlersRun,
       Service!ServiceNext
  <2>5. CASE Registry!Return \/ Registry!Leave
    BY <1>2, <1>3, <2>1, <2>5 DEF Registry!Return, Registry!Leave, Service!Return, Service!Leave,
       Service!HandlersRun, Service!ServiceNext
  <2>. QED
    BY <2>2, <2>3, <2>4, <2>5
<1>. QED
  BY <1>4, <1>5 DEF EvInvoke, EvInvoked

\* A call takes effect only while the semaphore's other holder, the flush, is not at work.
LEMMA CallServed ==
    ASSUME KInv, ServiceInv, NEW t \in Thread, ApiStep(t), UNCHANGED <<msgVars, kVars>>
    PROVE  [Service!ServiceNext]_(Service!serviceVars)
<1>. USE DEF LockedPc, RegisterPc, UnregisterPc
<1>1. ipc = "idle" /\ fpc = "idle" /\ Current = NoMsg
  <2>1. pc[t] \in LockedPc
    BY DEF ApiStep, RegisterRefused, RegisterFind, RegisterCb, RegisterArg, UnregisterRefused,
       UnregisterCheck, UnregisterCb, UnregisterArg, Signal
  <2>2. ipc = "idle"
    BY <2>1 DEF KInv, TableInv, SemaInv
  <2>. QED
    BY <2>2 DEF ServiceInv, InFlush, Current, OnMsg
<1>2. CASE RegisterArg(t) \/ UnregisterCb(t)
  <2>1. PICK i \in Index :
          /\ ~Inside
          /\ \/ /\ ViewTable[i] = Free
                /\ \E reg \in Registration : ViewTable' = [ViewTable EXCEPT ![i] = reg]
             \/ /\ ViewTable[i] # Free
                /\ ViewTable' = [ViewTable EXCEPT ![i] = Free]
          /\ UNCHANGED <<ViewLeft, Inside, running>>
    BY <1>2, CallTakesEffect DEF KInv
  <2>2. (\E reg \in Registration : Service!Add(i, reg)) \/ Service!Remove(i)
    BY <2>1 DEF Service!Add, Service!Remove
  <2>3. UNCHANGED <<Service!fifoVars, ShownNow>>
    BY <2>1, FifoUnseen DEF ShownNow, msgVars, Fifo!fifoVars, Service!fifoVars
  <2>. QED
    BY <1>1, <2>2, <2>3 DEF Service!TableChanges, Service!ServiceNext, Service!Slots, Index
<1>3. CASE RegisterCb(t) \/ UnregisterArg(t)
  BY <1>3, HalfWritesUnseen, PrintServed DEF KInv, msgVars
<1>4. CASE RegisterRefused(t) \/ RegisterFind(t) \/ UnregisterRefused(t) \/ UnregisterCheck(t) \/ Signal(t)
  BY <1>4, WaitsAndTestsUnseen, PrintServed DEF KInv, msgVars
<1>. QED
  BY <1>2, <1>3, <1>4 DEF ApiStep

\* Every step of the library is a step of the service or not seen there.
LEMMA ServiceStep ==
    ASSUME KInv, ServiceInv, [KNext]_kprintfVars
    PROVE  [Service!ServiceNext]_(Service!serviceVars)
<1>1. ASSUME UNCHANGED <<tableVars, semcount, callVars, invokeVars>> \/ EvRegister,
             UNCHANGED msgVars \/ KprintfQueues \/ KprintfDrops
      PROVE  [Service!ServiceNext]_(Service!serviceVars)
  <2>1. UNCHANGED RegView
    BY <1>1, OwnCallUnseen
  <2>2. UNCHANGED fpc
    BY <1>1 DEF KprintfQueues, KprintfDrops, Enqueue, flushVars, msgVars
  <2>. QED
    BY <1>1, <2>1, <2>2, PrintServed
<1>2. CASE InitStep
  BY <1>1, <1>2 DEF InitStep, InitCreate, InitStartThread, InitInstall, InitStarted, InitFails,
     CleanupDelete, CleanupEnds, SetState, handlerVars
<1>3. CASE Stop \/ StopStep
  BY <1>1, <1>3 DEF Stop, StopStep, StopUnregister, StopState, StopSet, StopAck, StopTimeout, SetState,
     handlerVars
<1>4. CASE EvStep
  <2>1. CASE EvPoll \/ EvRegister \/ EvSetup \/ EvWait \/ EvSemaFails \/ EvTerminate \/ EvReturn
    BY <1>1, <2>1 DEF EvPoll, EvRegister, EvSetup, EvWait, EvSemaFails, EvTerminate, EvReturn, handlerVars
  <2>2. CASE EvSema \/ EvSignal
    <3>1. UNCHANGED RegView
      BY <2>2, InvokeBySteps DEF EvSema, EvSignal, KInv, ServiceInv, RegistryInv
    <3>. QED
      BY <2>2, <3>1, PrintServed DEF EvSema, EvSignal, msgVars
  <2>. QED
    BY <1>4, <2>1, <2>2, FlushServed, InvokeServed DEF EvStep
<1>5. CASE KprintfCall \/ InstallCall \/ OtherInstalls
  BY <1>1, <1>5 DEF KprintfCall, InstallCall, OtherInstalls, handlerVars
<1>6. ASSUME NEW t \in Thread, CallStarts(t) \/ CallAcquires(t) \/ CallFails(t) \/ CallGoesOn(t)
      PROVE  [Service!ServiceNext]_(Service!serviceVars)
  <2>1. CASE ApiStep(t) /\ UNCHANGED <<msgVars, kVars>>
    BY <2>1, CallServed
  <2>2. CASE Announce(t) /\ (KprintfQueues \/ KprintfDrops)
    <3>1. UNCHANGED fpc
      BY <2>2 DEF KprintfQueues, KprintfDrops, Enqueue, flushVars, msgVars
    <3>. QED
      BY <2>2, <3>1, WaitsAndTestsUnseen, PrintServed DEF KInv
  <2>3. CASE CallStarts(t) \/ CallAcquires(t) \/ CallFails(t)
    <3>1. UNCHANGED <<RegView, msgVars>>
      BY <2>3, WaitsAndTestsUnseen DEF CallStarts, CallAcquires, CallFails, KInv
    <3>. QED
      BY <3>1, PrintServed DEF msgVars
  <2>. QED
    BY <1>6, <2>1, <2>2, <2>3 DEF CallGoesOn
<1>7. CASE UNCHANGED kprintfVars
  BY <1>1, <1>7 DEF kprintfVars, handlerVars
<1>. QED
  BY <1>2, <1>3, <1>4, <1>5, <1>6, <1>7 DEF KNext

\* From Kprintf to the handlers, for every pool, table, number of threads and of
\* messages, with failing waits, calls from handlers, other modules and a stop at any
\* time: a message is shown once, in its turn, to the handlers registered when its turn
\* comes, and removed only after that; no call takes effect in between.
THEOREM KprintfKeepsService == KSpec => KeepsService
<1>1. KInit => ServiceInv /\ Service!ServiceInit
  <2>. SUFFICES ASSUME KInit PROVE ServiceInv /\ Service!ServiceInit
    OBVIOUS
  <2>1. Fifo!FifoInit /\ RegistryInv /\ Registry!RegistryInit
    BY FifoStart, RegistryStart DEF KInit
  <2>2. ServiceInv /\ ShownNow = FALSE
    BY <2>1 DEF KInit, TableInit, MsgInit, ServiceInv, RegistryInv, Inside, InFlush, ShownNow
  <2>. QED
    BY <2>1, <2>2 DEF Service!ServiceInit, Service!FifoInit, Fifo!FifoInit, Service!RegistryInit,
       Registry!RegistryInit, Service!Slots, Registry!Slots
<1>2. KInv /\ ServiceInv /\ [KNext]_kprintfVars =>
         ServiceInv' /\ [Service!ServiceNext]_(Service!serviceVars)
  BY ServiceInvStep, ServiceStep
<1>. QED
  BY <1>1, <1>2, KprintfInvariant, PTL DEF KSpec, KeepsService, Service!ServiceSpec
=============================================================================

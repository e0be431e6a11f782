--------------------------- MODULE CallbacksProofs ---------------------------
(***************************************************************************)
(* Proofs about the callback helper, for any number of set-ups.  At most   *)
(* one thread exists, that of the last set-up, and none while the program  *)
(* writes the two variables of the user callback.  About the first set-up  *)
(* the invariant also follows the thread's own progress, which is what the *)
(* wait for g_sleeping makes kill_callbacks know.                          *)
(***************************************************************************)
EXTENDS Callbacks, TLAPS

WithThread == {"start", "running", "poll", "delete", "terminate"}
Stored == {"register", "set", "sleeping", "exit_cb", "exit_game"}
Asleep == {"sleeping", "exit_cb", "exit_game"}

OneThread ==
    \A t \in ThreadId :
        thread[t] # "none" => t = g_thid /\ t = setups /\ pc \in WithThread

PairInv ==
    /\ pc \notin {"idle", "common"} => g_user_common = g_user_exit_cb
    /\ \A t \in ThreadId : thread[t] = "exit_cb" => func = g_user_exit_cb
    /\ UserPair

FirstInv ==
    /\ setups = 0 => pc = "idle" /\ cbs = {} /\ ~g_sleeping
    /\ setups = 1 =>
          /\ cbs \subseteq {1}
          /\ pc \in {"common", "create", "start"} =>
                cbs = {} /\ ~g_sleeping /\ thread[1] \in {"none", "dormant"}
          /\ pc \in {"running", "poll", "delete"} =>
                /\ thread[1] \in {"none", "dormant", "create_cb"} => cbs = {}
                /\ thread[1] \in Stored => g_exit_cbid = 1
                /\ g_sleeping => thread[1] \in Asleep
          /\ pc = "delete" => g_sleeping
          /\ pc = "terminate" => thread[1] \in Asleep /\ cbs = {}
          /\ pc = "idle" => cbs = {}

CbInv == CbTypeOK /\ OneThread /\ PairInv /\ FirstInv

\* The steps of setup_callbacks.
LEMMA SetupKeeps ==
    ASSUME CbInv, SetupUser \/ SetupCommon \/ SetupCreate \/ SetupStart \/ SetupFails
    PROVE  CbInv'
<1>. USE CallbacksAssumption DEF CbInv, statics, kernelVars, WithThread, Stored, Asleep, None, ThreadId, User
<1>1. setups \in Nat /\ thread \in [ThreadId -> ThreadPc]
  BY DEF CbTypeOK
<1>2. CbTypeOK'
  <2>1. CASE SetupUser
    BY <2>1 DEF SetupUser, CbTypeOK, Pc
  <2>2. CASE SetupCommon \/ SetupFails
    BY <2>2 DEF SetupCommon, SetupFails, CbTypeOK, Pc
  <2>3. CASE SetupCreate
    <3>1. setups # 0
      BY <2>3 DEF SetupCreate, FirstInv
    <3>. QED
      BY <2>3, <3>1 DEF SetupCreate, ThreadGoes, CbTypeOK, Pc, ThreadPc
  <2>4. CASE SetupStart
    BY <2>4 DEF SetupStart, ThreadGoes, CbTypeOK, Pc, ThreadPc
  <2>. QED
    BY <2>1, <2>2, <2>3, <2>4
<1>3. OneThread'
  BY <1>1 DEF SetupUser, SetupCommon, SetupCreate, SetupStart, SetupFails, ThreadGoes, OneThread
<1>4. PairInv'
  <2>1. CASE SetupUser \/ SetupCommon
    BY <2>1 DEF SetupUser, SetupCommon, OneThread, PairInv, UserPair
  <2>2. CASE SetupCreate \/ SetupStart \/ SetupFails
    BY <1>1, <2>2 DEF SetupCreate, SetupStart, SetupFails, ThreadGoes, PairInv, UserPair
  <2>. QED
    BY <2>1, <2>2
<1>5. FirstInv'
  <2>1. CASE SetupUser
    BY <1>1, <2>1 DEF SetupUser, OneThread, FirstInv, CbTypeOK
  <2>2. CASE SetupCommon \/ SetupFails
    BY <1>1, <2>2 DEF SetupCommon, SetupFails, FirstInv
  <2>3. CASE SetupCreate \/ SetupStart
    BY <1>1, <2>3 DEF SetupCreate, SetupStart, ThreadGoes, FirstInv
  <2>. QED
    BY <2>1, <2>2, <2>3
<1>. QED
  BY <1>2, <1>3, <1>4, <1>5

\* The steps of kill_callbacks, and the kernel's notification.
LEMMA KillKeeps ==
    ASSUME CbInv, Kill \/ KillPoll \/ KillDelete \/ KillTerminate \/ ExitRequest
    PROVE  CbInv'
<1>. USE CallbacksAssumption DEF CbInv, statics, kernelVars, WithThread, Stored, Asleep, None, ThreadId, User
<1>1. setups \in Nat /\ thread \in [ThreadId -> ThreadPc]
  BY DEF CbTypeOK
<1>2. CbTypeOK'
  <2>1. CASE KillTerminate
    BY <2>1 DEF KillTerminate, CbTypeOK, Pc, ThreadPc
  <2>2. CASE Kill \/ KillPoll \/ KillDelete \/ ExitRequest
    BY <2>2 DEF Kill, KillPoll, KillDelete, ExitRequest, CbTypeOK, Pc
  <2>. QED
    BY <2>1, <2>2
<1>3. OneThread'
  BY <1>1 DEF Kill, KillPoll, KillDelete, KillTerminate, ExitRequest, OneThread
<1>4. PairInv'
  BY <1>1 DEF Kill, KillPoll, KillDelete, KillTerminate, ExitRequest, PairInv, UserPair
<1>5. FirstInv'
  <2>1. CASE KillTerminate
    BY <1>1, <2>1 DEF KillTerminate, FirstInv
  <2>2. CASE Kill \/ KillPoll \/ KillDelete \/ ExitRequest
    BY <1>1, <2>2 DEF Kill, KillPoll, KillDelete, ExitRequest, FirstInv
  <2>. QED
    BY <2>1, <2>2
<1>. QED
  BY <1>2, <1>3, <1>4, <1>5

\* The steps of a callback thread.
LEMMA ThreadKeeps ==
    ASSUME CbInv, NEW t \in ThreadId, ThreadStep(t)
    PROVE  CbInv'
<1>. USE CallbacksAssumption DEF CbInv, statics, kernelVars, WithThread, Stored, Asleep, None, ThreadId, User
<1>1. /\ setups \in Nat /\ thread \in [ThreadId -> ThreadPc]
      /\ g_user_exit_cb \in User /\ g_user_common \in User /\ func \in User
  BY DEF CbTypeOK
<1>2. CbTypeOK'
  <2>1. CASE ExitCallback(t) \/ UserCallback(t) \/ ExitGame(t)
    <3>1. thread' \in [ThreadId -> ThreadPc]
      BY <2>1 DEF ExitCallback, UserCallback, ExitGame, ThreadGoes, CbTypeOK, ThreadPc
    <3>2. func' \in User /\ ran' \in User \X User
      BY <2>1 DEF ExitCallback, UserCallback, ExitGame, CbTypeOK
    <3>3. /\ exited' \in BOOLEAN
          /\ UNCHANGED <<statics, pc, setups, cbs, kexit, notify>>
      BY <2>1 DEF ExitCallback, UserCallback, ExitGame, CbTypeOK
    <3>. QED
      BY <3>1, <3>2, <3>3 DEF CbTypeOK
  <2>2. CASE CreateCallback(t) \/ StoreCallback(t) \/ RegisterCallback(t) \/ Sleep(t)
    BY <2>2 DEF CreateCallback, StoreCallback, RegisterCallback, Sleep, ThreadGoes, CbTypeOK, ThreadPc
  <2>. QED
    BY <2>1, <2>2 DEF ThreadStep
<1>3. OneThread'
  BY <1>1 DEF ThreadStep, CreateCallback, StoreCallback, RegisterCallback, Sleep, ExitCallback,
     UserCallback, ExitGame, ThreadGoes, OneThread
<1>4. PairInv'
  BY <1>1 DEF ThreadStep, CreateCallback, StoreCallback, RegisterCallback, Sleep, ExitCallback,
     UserCallback, ExitGame, ThreadGoes, OneThread, PairInv, UserPair
<1>5. FirstInv'
  <2>1. setups = 1 => t = 1
    BY <1>1 DEF ThreadStep, CreateCallback, StoreCallback, RegisterCallback, Sleep, ExitCallback,
       UserCallback, ExitGame, ThreadGoes, OneThread
  <2>. QED
    BY <1>1, <2>1 DEF ThreadStep, CreateCallback, StoreCallback, RegisterCallback, Sleep, ExitCallback,
       UserCallback, ExitGame, ThreadGoes, OneThread, FirstInv
<1>. QED
  BY <1>2, <1>3, <1>4, <1>5

\* The inductive invariant of cb.c.
THEOREM CallbacksInvariant == CbSpec => []CbInv
<1>1. CbInit => CbInv
  <2>. SUFFICES ASSUME CbInit PROVE CbInv
    OBVIOUS
  <2>1. CbTypeOK
    <3>1. 0 \in User /\ 0 \in 0 .. MaxSetups
      BY CallbacksAssumption DEF User
    <3>2. thread \in [ThreadId -> ThreadPc]
      BY DEF CbInit, ThreadPc
    <3>. QED
      BY <3>1, <3>2 DEF CbInit, CbTypeOK, Pc
  <2>2. OneThread /\ PairInv
    BY DEF CbInit, OneThread, PairInv, UserPair
  <2>3. FirstInv
    BY DEF CbInit, FirstInv
  <2>. QED
    BY <2>1, <2>2, <2>3 DEF CbInv
<1>2. CbInv /\ [CbNext]_cbVars => CbInv'
  <2>1. CbInv /\ UNCHANGED cbVars => CbInv'
    BY DEF cbVars, statics, kernelVars, CbInv, CbTypeOK, OneThread, PairInv, FirstInv, UserPair
  <2>. QED
    BY <2>1, SetupKeeps, KillKeeps, ThreadKeeps DEF CbNext, ProgramStep
<1>. QED
  BY <1>1, <1>2, PTL DEF CbSpec

\* The identifiers, states and arguments of cb.c keep their types.
THEOREM CallbacksTypeCorrect == CbSpec => []CbTypeOK
<1>1. CbInv => CbTypeOK
  BY DEF CbInv
<1>. QED
  BY <1>1, CallbacksInvariant, PTL

\* Between kill_callbacks and the next set-up there is no thread, and after the
\* first set-up no callback, wherever the thread was when it was taken down.
THEOREM KillLeavesNothing == CbSpec => []KillCleans
<1>1. CbInv => KillCleans
  <2>1. CbInv /\ pc = "idle" /\ setups <= 1 => cbs = {}
    BY DEF CbInv, CbTypeOK, FirstInv
  <2>. QED
    BY <2>1 DEF CbInv, OneThread, KillCleans, WithThread
<1>. QED
  BY <1>1, CallbacksInvariant, PTL

\* The user callback gets its own argument, whatever set-ups follow one another.
THEOREM UserGetsOwnArgument == CbSpec => []UserPair
<1>1. CbInv => UserPair
  BY DEF CbInv, PairInv
<1>. QED
  BY <1>1, CallbacksInvariant, PTL

-----------------------------------------------------------------------------
\* The thread is past sceKernelRegisterExitCallback.
Served == {"set", "sleeping", "exit_cb", "exit_game"}

\* Until the second set-up the kernel knows callback 1 or none, and knows it only
\* when the thread has registered it.
HeardInv ==
    setups <= 1 =>
        /\ kexit \in {None, 1}
        /\ setups = 0 \/ pc \in {"common", "create", "start"} => kexit = None
        /\ pc \in {"running", "poll", "delete"} /\ kexit = 1 => thread[1] \in Served
        /\ notify # None => notify = 1 /\ 1 \in cbs /\ thread[1] \in Served

\* The wait for g_sleeping keeps the thread until the kernel can no longer call it.
LEMMA HeardStep == CbInv /\ HeardInv /\ [CbNext]_cbVars => HeardInv'
<1>. SUFFICES ASSUME CbInv, HeardInv, [CbNext]_cbVars, setups' <= 1 PROVE HeardInv'
  BY DEF HeardInv
<1>. USE CallbacksAssumption DEF CbInv, statics, kernelVars, WithThread, Stored, Asleep, Served, None, ThreadId, User
<1>1. setups \in Nat /\ thread \in [ThreadId -> ThreadPc]
  BY DEF CbTypeOK
<1>2. CASE SetupUser
  <2>1. setups = 0 /\ cbs = {}
    BY <1>1, <1>2 DEF SetupUser, FirstInv
  <2>. QED
    BY <1>1, <1>2, <2>1 DEF SetupUser, HeardInv
<1>3. CASE SetupCommon \/ SetupCreate \/ SetupStart \/ SetupFails
  <2>1. UNCHANGED <<setups, cbs, kexit, notify>> /\ setups = 1
    BY <1>1, <1>3 DEF SetupCommon, SetupCreate, SetupStart, SetupFails, FirstInv
  <2>2. cbs = {} /\ notify = None
    BY <1>1, <1>3, <2>1 DEF SetupCommon, SetupCreate, SetupStart, SetupFails, FirstInv, HeardInv
  <2>3. kexit = None
    BY <1>1, <1>3, <2>1 DEF SetupCommon, SetupCreate, SetupStart, SetupFails, HeardInv
  <2>. QED
    BY <1>1, <2>1, <2>2, <2>3 DEF HeardInv
<1>4. CASE Kill \/ KillPoll
  BY <1>1, <1>4 DEF Kill, KillPoll, HeardInv, FirstInv
<1>5. CASE KillDelete
  BY <1>1, <1>5 DEF KillDelete, HeardInv, FirstInv
<1>6. CASE KillTerminate
  BY <1>1, <1>6 DEF KillTerminate, HeardInv, FirstInv
<1>7. CASE ExitRequest
  <2>1. kexit = 1 /\ setups = 1 /\ 1 \in cbs
    BY <1>1, <1>7 DEF ExitRequest, HeardInv, FirstInv, CbTypeOK
  <2>2. pc \in {"running", "poll", "delete"}
    BY <1>1, <2>1 DEF HeardInv, FirstInv, CbTypeOK, Pc
  <2>. QED
    BY <1>1, <1>7, <2>1, <2>2 DEF ExitRequest, HeardInv
<1>8. ASSUME NEW t \in ThreadId, ThreadStep(t)
      PROVE  HeardInv'
  <2>1. t = setups /\ t = 1 /\ UNCHANGED <<pc, setups, notify>>
    BY <1>1, <1>8 DEF ThreadStep, CreateCallback, StoreCallback, RegisterCallback, Sleep, ExitCallback,
       UserCallback, ExitGame, ThreadGoes, OneThread
  <2>2. CASE CreateCallback(t) \/ StoreCallback(t)
    BY <1>1, <2>1, <2>2 DEF CreateCallback, StoreCallback, ThreadGoes, HeardInv, FirstInv
  <2>3. CASE RegisterCallback(t)
    BY <1>1, <2>1, <2>3 DEF RegisterCallback, ThreadGoes, HeardInv, FirstInv, OneThread
  <2>4. CASE Sleep(t) \/ ExitCallback(t) \/ UserCallback(t) \/ ExitGame(t)
    BY <1>1, <2>1, <2>4 DEF Sleep, ExitCallback, UserCallback, ExitGame, ThreadGoes, HeardInv
  <2>. QED
    BY <1>8, <2>2, <2>3, <2>4 DEF ThreadStep
<1>9. CASE UNCHANGED cbVars
  BY <1>9 DEF cbVars, HeardInv
<1>. QED
  BY <1>2, <1>3, <1>4, <1>5, <1>6, <1>7, <1>8, <1>9 DEF CbNext, ProgramStep

\* Until the second set-up, whenever kill_callbacks comes and whenever the user
\* leaves the game, a notified callback exists and has a thread to run on.
THEOREM ExitRequestHeard == CbSpec => []ExitHeard
<1>1. CbInit => HeardInv
  BY DEF CbInit, HeardInv
<1>2. CbInv /\ HeardInv => ExitHeard
  BY DEF HeardInv, ExitHeard, Served
<1>. QED
  BY <1>1, <1>2, HeardStep, CallbacksInvariant, PTL DEF CbSpec
=============================================================================

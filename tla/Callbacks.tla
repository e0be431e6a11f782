------------------------------ MODULE Callbacks ------------------------------
(***************************************************************************)
(* src/libs/psp/util/cb.c: a program sets up a thread that registers the   *)
(* exit callback and sleeps, and takes it down again with kill_callbacks.  *)
(*                                                                         *)
(*  - The program calls setup_callbacks and kill_callbacks in turn, like   *)
(*    the demonstrations, which do not look at the result of the set-up.   *)
(*  - Thread t of the t-th set-up runs callback_thread, and exit_callback  *)
(*    when the kernel notifies the callback it created, also named t.      *)
(*  - The kernel notifies the registered exit callback when the user       *)
(*    leaves the game.  sceKernelExitGame ends all of it.                  *)
(***************************************************************************)
EXTENDS Integers

CONSTANT MaxSetups  \* bound on the calls of setup_callbacks

ASSUME CallbacksAssumption == MaxSetups \in Nat

VARIABLES
    g_user_exit_cb, g_user_common,  \* number of the set-up they are from, 0 is NULL
    g_sleeping, g_exit_cbid, g_thid,
    pc,       \* where the program is in the two functions
    setups,   \* how often it called setup_callbacks
    thread,   \* where every thread is; "none" does not exist
    cbs,      \* callbacks that exist
    kexit,    \* the exit callback registered in the kernel
    notify,   \* the callback that has been notified
    func,     \* what exit_callback read from g_user_exit_cb
    ran,      \* user callback and argument of the call it made
    exited    \* sceKernelExitGame was called

statics == <<g_user_exit_cb, g_user_common, g_sleeping, g_exit_cbid, g_thid>>
kernelVars == <<thread, cbs, kexit, notify>>
cbVars == <<statics, pc, setups, kernelVars, func, ran, exited>>

None == -1
ThreadId == 1 .. MaxSetups
User == 0 .. MaxSetups

Pc == {"idle", "common", "create", "start", "running", "poll", "delete", "terminate"}
ThreadPc == {"none", "dormant", "create_cb", "store_cb", "register", "set", "sleeping",
             "exit_cb", "exit_game"}

CbTypeOK ==
    /\ g_user_exit_cb \in User /\ g_user_common \in User
    /\ g_sleeping \in BOOLEAN
    /\ g_exit_cbid \in ThreadId \cup {None} /\ g_thid \in ThreadId \cup {None}
    /\ pc \in Pc
    /\ setups \in 0 .. MaxSetups
    /\ thread \in [ThreadId -> ThreadPc]
    /\ cbs \subseteq ThreadId
    /\ kexit \in ThreadId \cup {None} /\ notify \in ThreadId \cup {None}
    /\ func \in User
    /\ ran \in User \X User
    /\ exited \in BOOLEAN

CbInit ==
    /\ g_user_exit_cb = 0 /\ g_user_common = 0
    /\ g_sleeping = FALSE
    /\ g_exit_cbid = None /\ g_thid = None
    /\ pc = "idle"
    /\ setups = 0
    /\ thread = [t \in ThreadId |-> "none"]
    /\ cbs = {}
    /\ kexit = None /\ notify = None
    /\ func = 0
    /\ ran = <<0, 0>>
    /\ exited = FALSE

ThreadGoes(t, from, to) ==
    /\ thread[t] = from
    /\ thread' = [thread EXCEPT ![t] = to]

-----------------------------------------------------------------------------
(***************************************************************************)
(* setup_callbacks.                                                        *)
(***************************************************************************)
SetupUser ==
    /\ pc = "idle"
    /\ setups < MaxSetups
    /\ setups' = setups + 1
    /\ g_user_exit_cb' \in {0, setups + 1}
    /\ pc' = "common"
    /\ UNCHANGED <<g_user_common, g_sleeping, g_exit_cbid, g_thid, kernelVars, func, ran, exited>>

\* The caller's argument belongs to the caller's function.
SetupCommon ==
    /\ pc = "common"
    /\ g_user_common' = g_user_exit_cb
    /\ pc' = "create"
    /\ UNCHANGED <<g_user_exit_cb, g_sleeping, g_exit_cbid, g_thid, setups, kernelVars, func, ran, exited>>

SetupCreate ==
    /\ pc = "create"
    /\ ThreadGoes(setups, "none", "dormant")
    /\ g_thid' = setups
    /\ pc' = "start"
    /\ UNCHANGED <<g_user_exit_cb, g_user_common, g_sleeping, g_exit_cbid, setups, cbs, kexit, notify,
                   func, ran, exited>>

SetupStart ==
    /\ pc = "start"
    /\ ThreadGoes(setups, "dormant", "create_cb")
    /\ pc' = "running"
    /\ UNCHANGED <<statics, setups, cbs, kexit, notify, func, ran, exited>>

\* Mutant of SetupFails: the result is stored before it is looked at.
SetupFailsStored ==
    /\ pc \in {"create", "start"}
    /\ pc' = "running"
    /\ g_thid' = -2
    /\ UNCHANGED <<g_user_exit_cb, g_user_common, g_sleeping, g_exit_cbid, setups, kernelVars, func,
                   ran, exited>>

\* The thread cannot be created or started: an error code, and the program goes on.
SetupFails ==
    /\ pc \in {"create", "start"}
    /\ pc' = "running"
    /\ UNCHANGED <<statics, setups, kernelVars, func, ran, exited>>

-----------------------------------------------------------------------------
(***************************************************************************)
(* kill_callbacks.                                                         *)
(***************************************************************************)
Kill ==
    /\ pc = "running"
    /\ pc' = "poll"
    /\ UNCHANGED <<statics, setups, kernelVars, func, ran, exited>>

\* Mutant of KillPoll: the thread is not waited for.
KillPollNot ==
    /\ pc = "poll"
    /\ pc' = "delete"
    /\ UNCHANGED <<statics, setups, kernelVars, func, ran, exited>>

\* while (!g_sleeping) sceKernelDelayThread(1000)
KillPoll ==
    /\ pc = "poll"
    /\ g_sleeping
    /\ pc' = "delete"
    /\ UNCHANGED <<statics, setups, kernelVars, func, ran, exited>>

KillDelete ==
    /\ pc = "delete"
    /\ pc' = "terminate"
    /\ cbs' = cbs \ {g_exit_cbid}
    /\ notify' = IF notify = g_exit_cbid THEN None ELSE notify
    /\ UNCHANGED <<statics, setups, thread, kexit, func, ran, exited>>

\* Mutant of KillTerminate: the thread is left to itself.
KillTerminateNot ==
    /\ pc = "terminate"
    /\ g_exit_cbid' = None
    /\ g_thid' = None
    /\ pc' = "idle"
    /\ UNCHANGED <<g_user_exit_cb, g_user_common, g_sleeping, setups, kernelVars, func, ran, exited>>

KillTerminate ==
    /\ pc = "terminate"
    /\ thread' = [t \in ThreadId |-> IF t = g_thid THEN "none" ELSE thread[t]]
    /\ g_exit_cbid' = None
    /\ g_thid' = None
    /\ pc' = "idle"
    /\ UNCHANGED <<g_user_exit_cb, g_user_common, g_sleeping, setups, cbs, kexit, notify, func, ran, exited>>

ProgramStep ==
    SetupCommon \/ SetupCreate \/ SetupStart \/ SetupFails \/ KillPoll \/ KillDelete \/ KillTerminate

-----------------------------------------------------------------------------
(***************************************************************************)
(* callback_thread and create_callbacks.                                   *)
(***************************************************************************)
CreateCallback(t) ==
    /\ ThreadGoes(t, "create_cb", "store_cb")
    /\ cbs' = cbs \cup {t}
    /\ UNCHANGED <<statics, pc, setups, kexit, notify, func, ran, exited>>

StoreCallback(t) ==
    /\ ThreadGoes(t, "store_cb", "register")
    /\ g_exit_cbid' = t
    /\ UNCHANGED <<g_user_exit_cb, g_user_common, g_sleeping, g_thid, pc, setups, cbs, kexit, notify,
                   func, ran, exited>>

\* sceKernelRegisterExitCallback(g_exit_cbid)
RegisterCallback(t) ==
    /\ ThreadGoes(t, "register", "set")
    /\ kexit' = g_exit_cbid
    /\ UNCHANGED <<statics, pc, setups, cbs, notify, func, ran, exited>>

\* Mutant of Sleep: the flag is not set.
SleepUnset(t) ==
    /\ ThreadGoes(t, "set", "sleeping")
    /\ UNCHANGED <<statics, pc, setups, cbs, kexit, notify, func, ran, exited>>

\* g_sleeping = 1; sceKernelSleepThreadCB()
Sleep(t) ==
    /\ ThreadGoes(t, "set", "sleeping")
    /\ g_sleeping' = TRUE
    /\ UNCHANGED <<g_user_exit_cb, g_user_common, g_exit_cbid, g_thid, pc, setups, cbs, kexit, notify,
                   func, ran, exited>>

(***************************************************************************)
(* exit_callback.                                                          *)
(***************************************************************************)
ExitRequest ==
    /\ kexit \in cbs
    /\ notify = None
    /\ notify' = kexit
    /\ UNCHANGED <<statics, pc, setups, thread, cbs, kexit, func, ran, exited>>

ExitCallback(t) ==
    /\ notify = t /\ t \in cbs
    /\ ThreadGoes(t, "sleeping", "exit_cb")
    /\ func' = g_user_exit_cb
    /\ UNCHANGED <<statics, pc, setups, cbs, kexit, notify, ran, exited>>

\* Mutant of UserCallback: a NULL callback is called.
UserCallbackNull(t) ==
    /\ func # 0
    /\ ThreadGoes(t, "exit_cb", "exit_game")
    /\ ran' = <<func, g_user_common>>
    /\ UNCHANGED <<statics, pc, setups, cbs, kexit, notify, func, exited>>

\* if (g_user_exit_cb) g_user_exit_cb(g_user_common)
UserCallback(t) ==
    /\ ThreadGoes(t, "exit_cb", "exit_game")
    /\ ran' = IF func = 0 THEN ran ELSE <<func, g_user_common>>
    /\ UNCHANGED <<statics, pc, setups, cbs, kexit, notify, func, exited>>

ExitGame(t) ==
    /\ thread[t] = "exit_game"
    /\ exited' = TRUE
    /\ UNCHANGED <<statics, pc, setups, kernelVars, func, ran>>

ThreadStep(t) ==
    \/ CreateCallback(t) \/ StoreCallback(t) \/ RegisterCallback(t) \/ Sleep(t)
    \/ ExitCallback(t) \/ UserCallback(t) \/ ExitGame(t)

-----------------------------------------------------------------------------
CbNext ==
    /\ ~exited
    /\ \/ SetupUser \/ Kill \/ ProgramStep
       \/ \E t \in ThreadId : ThreadStep(t)
       \/ ExitRequest

(***************************************************************************)
(* Threads run when they are ready.  The program need not call anything,   *)
(* and the user need not leave the game.                                   *)
(***************************************************************************)
CbSpec ==
    /\ CbInit /\ [][CbNext]_cbVars
    /\ WF_cbVars(~exited /\ ProgramStep)
    /\ \A t \in ThreadId : WF_cbVars(~exited /\ ThreadStep(t))

-----------------------------------------------------------------------------
\* "Terminate and delete the callback thread. Delete the registered exit
\* callback." (cb.h): between kill_callbacks and the next set-up no thread is left,
\* and after the first set-up no callback either, wherever the new thread was.
\* (Later ones find g_sleeping still set and do not wait for the callback.)
KillCleans ==
    pc = "idle" =>
        /\ \A t \in ThreadId : thread[t] = "none"
        /\ setups <= 1 => cbs = {}

\* The user callback is called with the argument it was set up with, although
\* another set-up writes the two variables one after the other.
UserPair == ran[1] = ran[2]

\* A request to leave the game is heard: until the second set-up, a callback the
\* kernel has notified exists, and its thread sleeps or is about to, or runs it.
\* kill_callbacks neither leaves the request to a thread it has terminated nor
\* deletes the callback under a notification it keeps.  (A later set-up that is
\* killed early can leave a registered callback without a thread.)
ExitHeard ==
    setups <= 1 /\ notify # None =>
        notify \in cbs /\ thread[notify] \in {"set", "sleeping", "exit_cb", "exit_game"}

\* kill_callbacks returns when the set-up it follows succeeded.
KillReturns ==
    \A t \in ThreadId :
        setups = t /\ pc = "poll" /\ thread[t] \notin {"none", "dormant"} ~> pc = "idle" \/ exited

\* When the user leaves the game while the callback's thread is there, the game
\* is left, unless the program takes the thread down at that time.
ExitServed ==
    \A t \in ThreadId :
        notify = t /\ thread[t] # "none" ~> exited \/ pc \in {"poll", "delete", "terminate"}
=============================================================================

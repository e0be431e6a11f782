-------------------------- MODULE HandlerTableProofs --------------------------
(***************************************************************************)
(* Proofs about the handler table, for every number of slots, every set of *)
(* threads and every set of handlers.                                      *)
(*                                                                         *)
(* The table is inconsistent while a call changes it, so the inductive     *)
(* invariant says what the thread that holds the semaphore has done so far *)
(* and that the slots it is not working on are in order.                   *)
(***************************************************************************)
EXTENDS HandlerTable, TLAPS, FiniteSetTheorems

\* At most one thread is between WaitSema and SignalSema.
SemaInv ==
    /\ semcount = 1 => ipc = "idle"
    /\ semcount = 1 \/ ipc # "idle" => \A t \in Thread : pc[t] \notin LockedPc
    /\ \A t, u \in Thread : pc[t] \in LockedPc /\ pc[u] \in LockedPc => t = u

MidPc == {"reg_cb", "reg_arg", "unreg_cb", "unreg_arg"}

DefaultAt(i) == g_handlers[i].cb = DefaultCb <=> g_default_handler_index = i

\* Slots that no call is working on.
SlotInv ==
    \A i \in Index :
        \/ \E t \in Thread : pc[t] \in MidPc /\ index[t] = i
        \/ g_handlers[i] \in Registration \cup {Free} /\ DefaultAt(i)

\* What a thread knows about its request.
RequestInv(t) ==
    /\ pc[t] \in {"reg_wait"} \cup RegisterPc => req[t] \in Registration
    /\ pc[t] \in {"idle", "announce", "unreg_wait"} \cup UnregisterPc => req[t] = Free
    /\ pc[t] \in MidPc => index[t] \in Index

\* What the thread has done to its slot.
OwnSlotInv(t) ==
    /\ pc[t] = "reg_cb" =>
          /\ g_handlers[index[t]] = Free
          /\ req[t].cb = DefaultCb <=> g_default_handler_index = index[t]
    /\ pc[t] = "reg_arg" =>
          /\ g_handlers[index[t]].cb = req[t].cb
          /\ req[t].cb = DefaultCb <=> g_default_handler_index = index[t]
    /\ pc[t] = "unreg_cb" =>
          /\ g_handlers[index[t]] \in Registration
          /\ g_default_handler_index # index[t]
    /\ pc[t] = "unreg_arg" =>
          /\ g_handlers[index[t]].cb = NoCb
          /\ g_default_handler_index # index[t]

\* g_handler_count lags behind by one while a call is between its two writes.
CountInv ==
    /\ (\A t \in Thread : pc[t] \notin {"reg_arg", "unreg_arg"}) =>
          g_handler_count = Cardinality(Occupied)
    /\ \A t \in Thread :
          /\ pc[t] = "reg_arg" => g_handler_count + 1 = Cardinality(Occupied)
          /\ pc[t] = "unreg_arg" => g_handler_count - 1 = Cardinality(Occupied)

InvokeInv ==
    /\ ipc \in {"call", "callback"} => slot \in Index /\ ~IsFree(slot)
    /\ ipc = "callback" => running = g_handlers[slot]

TableInv ==
    /\ TableTypeOK
    /\ SemaInv
    /\ SlotInv
    /\ \A t \in Thread : RequestInv(t) /\ OwnSlotInv(t)
    /\ CountInv
    /\ InvokeInv
    /\ ResultsHold

-----------------------------------------------------------------------------
\* The thread between WaitSema and SignalSema is alone there.
LEMMA Alone ==
    ASSUME SemaInv, TableTypeOK, NEW t \in Thread, pc[t] \in LockedPc
    PROVE  /\ semcount = 0
           /\ ipc = "idle"
           /\ \A u \in Thread : u # t => pc[u] \notin LockedPc
BY DEF SemaInv, TableTypeOK

\* The slot a call chose is free, and so the table has a consistent count there.
LEMMA CardOccupied ==
    ASSUME TableAssumption
    PROVE  /\ IsFiniteSet(Occupied)
           /\ Cardinality(Occupied) \in 0 .. MaxHandlers
           /\ Cardinality(Occupied) = MaxHandlers => Occupied = Index
<1>1. MaxHandlers \in Nat \ {0}
  BY DEF TableAssumption
<1>2. IsFiniteSet(Index) /\ Cardinality(Index) = MaxHandlers
  <2>1. IsFiniteSet(Index)
        /\ Cardinality(Index) = IF 0 > MaxHandlers - 1 THEN 0 ELSE MaxHandlers - 1 - 0 + 1
    BY <1>1, FS_Interval DEF Index
  <2>. QED
    BY <1>1, <2>1
<1>3. Occupied \in SUBSET Index
  BY DEF Occupied
<1>4. /\ IsFiniteSet(Occupied)
      /\ Cardinality(Occupied) <= Cardinality(Index)
      /\ Cardinality(Index) = Cardinality(Occupied) => Index = Occupied
  BY <1>2, <1>3, FS_Subset
<1>5. Cardinality(Occupied) \in Nat
  BY <1>4, FS_CardinalityType
<1>. QED
  BY <1>1, <1>2, <1>4, <1>5

\* A call that starts takes nothing away from the others.
LEMMA CallEntersKeeps ==
    ASSUME TableInv, NEW t \in Thread, pc[t] = "idle",
           \/ \E reg \in Registration : EnterRegister(t, reg)
           \/ \E i \in -1 .. MaxHandlers : EnterUnregister(t, i),
           UNCHANGED <<g_state, tableVars, semcount, invokeVars>>
    PROVE  TableInv'
<1>. USE TableAssumption DEF LockedPc, RegisterPc, UnregisterPc, MidPc
<1>1. /\ UNCHANGED <<g_state, tableVars, semcount, ret, invokeVars>>
      /\ pc[t] = "idle"
      /\ \/ pc' = [pc EXCEPT ![t] = "reg_wait"] /\ UNCHANGED index
            /\ \E reg \in Registration : req' = [req EXCEPT ![t] = reg]
         \/ pc' = [pc EXCEPT ![t] = "unreg_wait"] /\ UNCHANGED req
            /\ \E i \in -1 .. MaxHandlers : index' = [index EXCEPT ![t] = i]
  BY DEF EnterRegister, EnterUnregister
<1>2. TableTypeOK'
  BY <1>1 DEF TableInv, TableTypeOK, CallPc, tableVars, invokeVars
<1>3. SemaInv'
  BY <1>1 DEF TableInv, TableTypeOK, SemaInv, invokeVars
<1>4. SlotInv'
  BY <1>1 DEF TableInv, TableTypeOK, SlotInv, DefaultAt, tableVars
<1>5. \A u \in Thread : (RequestInv(u) /\ OwnSlotInv(u))'
  BY <1>1 DEF TableInv, TableTypeOK, RequestInv, OwnSlotInv, tableVars
<1>6. CountInv' /\ InvokeInv'
  BY <1>1 DEF TableInv, TableTypeOK, CountInv, InvokeInv, Occupied, IsFree, tableVars, invokeVars
<1>7. ResultsHold'
  BY <1>1 DEF TableInv, TableTypeOK, ResultsHold, Registering, Occupied, IsFree, tableVars
<1>. QED
  BY <1>2, <1>3, <1>4, <1>5, <1>6, <1>7 DEF TableInv

\* A call of another module, or of a handler, starts.
LEMMA CallsKeep ==
    ASSUME TableInv, NEW t \in Thread,
           \/ \E reg \in Registration : RegisterCall(t, reg)
           \/ \E i \in -1 .. MaxHandlers : UnregisterCall(t, i)
    PROVE  TableInv'
BY CallEntersKeeps DEF RegisterCall, UnregisterCall, MayCall

\* register_handler writes cb: one more slot is occupied, the count lags behind.
LEMMA RegisterCbKeeps ==
    ASSUME TableInv, NEW t \in Thread, RegisterCb(t)
    PROVE  TableInv'
<1>. USE TableAssumption DEF LockedPc, RegisterPc, UnregisterPc, MidPc
<1>. DEFINE i == index[t]
<1>1. /\ pc[t] = "reg_cb" /\ pc' = [pc EXCEPT ![t] = "reg_arg"]
      /\ g_handlers' = [g_handlers EXCEPT ![i].cb = req[t].cb]
      /\ UNCHANGED <<g_state, g_handler_count, g_default_handler_index, semcount, req,
                     index, ret, invokeVars>>
  BY DEF RegisterCb
<1>2. /\ semcount = 0 /\ ipc = "idle"
      /\ \A u \in Thread : u # t => pc[u] \notin LockedPc
  BY <1>1, Alone DEF TableInv
<1>3. i \in Index /\ req[t] \in Registration /\ g_handlers[i] = Free
  BY <1>1 DEF TableInv, RequestInv, OwnSlotInv
<1>4. /\ g_handlers' \in [Index -> Slot]
      /\ g_handlers'[i] = [cb |-> req[t].cb, arg |-> NoArg]
      /\ \A j \in Index : j # i => g_handlers'[j] = g_handlers[j]
      /\ req[t].cb # NoCb
  BY <1>1, <1>3 DEF TableInv, TableTypeOK, Slot, Free, Registration, AnyCb, AnyArg, TableAssumption
<1>5. TableTypeOK'
  BY <1>1, <1>4 DEF TableInv, TableTypeOK, CallPc, invokeVars
<1>6. SemaInv'
  BY <1>1, <1>2 DEF TableInv, TableTypeOK, SemaInv, invokeVars
<1>7. SlotInv'
  BY <1>1, <1>2, <1>4 DEF TableInv, TableTypeOK, SlotInv, DefaultAt
<1>8. \A u \in Thread : (RequestInv(u) /\ OwnSlotInv(u))'
  BY <1>1, <1>2, <1>3, <1>4 DEF TableInv, TableTypeOK, RequestInv, OwnSlotInv
<1>9. CountInv'
  <2>1. Occupied' = Occupied \cup {i} /\ i \notin Occupied
    BY <1>3, <1>4 DEF Occupied, IsFree, Free
  <2>2. Cardinality(Occupied') = Cardinality(Occupied) + 1
    BY <2>1, CardOccupied, FS_AddElement
  <2>3. g_handler_count = Cardinality(Occupied)
    BY <1>1, <1>2 DEF TableInv, CountInv
  <2>. QED
    BY <1>1, <1>2, <2>2, <2>3 DEF TableInv, TableTypeOK, CountInv
<1>10. InvokeInv' /\ ResultsHold'
  BY <1>1, <1>2 DEF TableInv, TableTypeOK, InvokeInv, ResultsHold, invokeVars
<1>. QED
  BY <1>5, <1>6, <1>7, <1>8, <1>9, <1>10 DEF TableInv

\* A call takes the semaphore: nobody else was between wait and signal.
LEMMA AcquireKeeps ==
    ASSUME TableInv, NEW t \in Thread, Acquire(t)
    PROVE  TableInv'
<1>. USE TableAssumption DEF LockedPc, RegisterPc, UnregisterPc, MidPc
<1>1. /\ semcount = 1 /\ semcount' = 0
      /\ \/ pc[t] = "reg_wait" /\ pc' = [pc EXCEPT ![t] = "reg_find"]
         \/ pc[t] = "unreg_wait" /\ pc' = [pc EXCEPT ![t] = "unreg_check"]
      /\ UNCHANGED <<g_state, tableVars, req, index, ret, invokeVars>>
  BY DEF Acquire, WaitSema
<1>2. ipc = "idle" /\ \A u \in Thread : pc[u] \notin LockedPc
  BY <1>1 DEF TableInv, SemaInv
<1>3. TableTypeOK' /\ SemaInv'
  BY <1>1, <1>2 DEF TableInv, TableTypeOK, SemaInv, CallPc, tableVars, invokeVars
<1>4. SlotInv'
  BY <1>1, <1>2 DEF TableInv, SlotInv, DefaultAt, tableVars
<1>5. \A u \in Thread : (RequestInv(u) /\ OwnSlotInv(u))'
  BY <1>1, <1>2 DEF TableInv, TableTypeOK, RequestInv, OwnSlotInv, tableVars
<1>6. CountInv' /\ InvokeInv' /\ ResultsHold'
  BY <1>1, <1>2 DEF TableInv, TableTypeOK, CountInv, InvokeInv, ResultsHold, Occupied, IsFree,
     tableVars, invokeVars
<1>. QED
  BY <1>3, <1>4, <1>5, <1>6 DEF TableInv

\* A call returns, after signalling or because its wait failed.
LEMMA CallEndsKeep ==
    ASSUME TableInv, NEW t \in Thread, AcquireFails(t) \/ Signal(t) \/ Announce(t)
    PROVE  TableInv'
<1>. USE TableAssumption DEF LockedPc, RegisterPc, UnregisterPc, MidPc
<1>1. /\ \/ /\ pc[t] \in {"reg_wait", "unreg_wait"} /\ pc' = [pc EXCEPT ![t] = "idle"]
            /\ UNCHANGED semcount /\ Forget(t)
         \/ /\ pc[t] = "signal"
            /\ \E l \in {"idle", "announce"} : pc' = [pc EXCEPT ![t] = l]
            /\ semcount' = semcount + 1 /\ Forget(t)
         \/ /\ pc[t] = "announce" /\ pc' = [pc EXCEPT ![t] = "idle"]
            /\ UNCHANGED <<semcount, req, index, ret>>
      /\ UNCHANGED <<g_state, tableVars, invokeVars>>
  BY DEF AcquireFails, Signal, Announce
<1>2. pc[t] = "signal" => semcount = 0 /\ ipc = "idle" /\ \A u \in Thread : u # t => pc[u] \notin LockedPc
  BY Alone DEF TableInv
<1>3. TableTypeOK'
  BY <1>1, <1>2 DEF TableInv, TableTypeOK, CallPc, Forget, tableVars, invokeVars
<1>4. SemaInv'
  BY <1>1, <1>2 DEF TableInv, TableTypeOK, SemaInv, invokeVars
<1>5. SlotInv'
  BY <1>1 DEF TableInv, TableTypeOK, SlotInv, DefaultAt, Forget, tableVars
<1>6. \A u \in Thread : (RequestInv(u) /\ OwnSlotInv(u))'
  BY <1>1 DEF TableInv, TableTypeOK, RequestInv, OwnSlotInv, Forget, tableVars
<1>7. CountInv' /\ InvokeInv'
  BY <1>1 DEF TableInv, TableTypeOK, CountInv, InvokeInv, Occupied, IsFree, tableVars, invokeVars
<1>8. ResultsHold'
  BY <1>1 DEF TableInv, TableTypeOK, ResultsHold, Registering, Occupied, IsFree, Forget, tableVars
<1>. QED
  BY <1>3, <1>4, <1>5, <1>6, <1>7, <1>8 DEF TableInv

\* The error paths and the repeated registration of the default handler change
\* nothing, and what they report is true.
LEMMA RefusalsKeep ==
    ASSUME TableInv, NEW t \in Thread, RegisterRefused(t) \/ UnregisterRefused(t)
    PROVE  TableInv'
<1>. USE TableAssumption DEF LockedPc, RegisterPc, UnregisterPc, MidPc
<1>1. /\ pc[t] \in {"reg_find", "unreg_check"} /\ pc' = [pc EXCEPT ![t] = "signal"]
      /\ \E r \in -5 .. MaxHandlers - 1 : ret' = [ret EXCEPT ![t] = r]
      /\ UNCHANGED <<g_state, tableVars, semcount, req, index, invokeVars>>
  BY DEF TableInv, TableTypeOK, RegisterRefused, UnregisterRefused, GoTo, Index,
     KPRINTF_ERR_MAX_HANDLERS, KPRINTF_ERR_INVALID_INDEX, KPRINTF_ERR_NO_HANDLER
<1>2. /\ semcount = 0 /\ ipc = "idle"
      /\ \A u \in Thread : u # t => pc[u] \notin LockedPc
  BY <1>1, Alone DEF TableInv
<1>3. TableTypeOK' /\ SemaInv'
  BY <1>1, <1>2 DEF TableInv, TableTypeOK, SemaInv, CallPc, tableVars, invokeVars
<1>4. SlotInv'
  BY <1>1 DEF TableInv, TableTypeOK, SlotInv, DefaultAt, tableVars
<1>5. \A u \in Thread : (RequestInv(u) /\ OwnSlotInv(u))'
  BY <1>1 DEF TableInv, TableTypeOK, RequestInv, OwnSlotInv, tableVars
<1>6. CountInv' /\ InvokeInv'
  BY <1>1 DEF TableInv, TableTypeOK, CountInv, InvokeInv, Occupied, IsFree, tableVars, invokeVars
<1>7. /\ \A i \in Index : g_handlers[i] \in Registration \cup {Free} /\ DefaultAt(i)
      /\ g_handler_count = Cardinality(Occupied)
  BY <1>1, <1>2 DEF TableInv, SlotInv, CountInv
<1>8. ASSUME RegisterRefused(t) PROVE ResultsHold'
  <2>1. pc[t] = "reg_find" /\ req[t] \in Registration
    BY <1>8 DEF RegisterRefused, TableInv, RequestInv
  <2>2. CASE AlreadyDefault(t) /\ ret' = [ret EXCEPT ![t] = g_default_handler_index]
    <3>. DEFINE d == g_default_handler_index
    <3>1. d \in Index /\ req[t] = [cb |-> DefaultCb, arg |-> Stdout]
      BY <2>1, <2>2 DEF AlreadyDefault, TableInv, TableTypeOK, Registration
    <3>2. g_handlers[d].cb = DefaultCb /\ g_handlers[d] \in Registration \cup {Free}
      BY <1>7, <3>1 DEF DefaultAt
    <3>3. g_handlers[d] = req[t]
      BY <3>1, <3>2 DEF Registration, Free
    <3>4. {i \in Index : g_handlers[i].cb = DefaultCb} = {d}
      BY <1>7, <3>1 DEF DefaultAt
    <3>5. ret'[t] = d /\ d >= 0 /\ d # -4 /\ req[t] # Free
      BY <2>2, <3>1 DEF TableInv, TableTypeOK, Index, Free
    <3>. QED
      BY <1>1, <1>2, <3>3, <3>4, <3>5 DEF TableInv, TableTypeOK, ResultsHold, tableVars,
         KPRINTF_ERR_MAX_HANDLERS, Registering
  <2>3. CASE /\ ret' = [ret EXCEPT ![t] = KPRINTF_ERR_MAX_HANDLERS]
             /\ g_handler_count >= MaxHandlers \/ \A i \in Index : ~IsFree(i)
    <3>1. Occupied = Index
      BY <1>7, <2>3, CardOccupied DEF Occupied
    <3>2. ret'[t] = -4
      BY <2>3 DEF TableInv, TableTypeOK, KPRINTF_ERR_MAX_HANDLERS
    <3>. QED
      BY <1>1, <1>2, <3>1, <3>2 DEF TableInv, TableTypeOK, ResultsHold, tableVars,
         Registering, Occupied, IsFree
  <2>. QED
    BY <1>8, <2>2, <2>3 DEF RegisterRefused, GoTo
<1>9. ASSUME UnregisterRefused(t) PROVE ResultsHold'
  <2>1. ret'[t] \in {-3, -5} /\ req[t] = Free
    BY <1>9 DEF UnregisterRefused, GoTo, TableInv, TableTypeOK, RequestInv,
       KPRINTF_ERR_INVALID_INDEX, KPRINTF_ERR_NO_HANDLER
  <2>. QED
    BY <1>1, <1>2, <2>1 DEF TableInv, TableTypeOK, ResultsHold, Registering,
       KPRINTF_ERR_MAX_HANDLERS
<1>. QED
  BY <1>3, <1>4, <1>5, <1>6, <1>8, <1>9 DEF TableInv

\* register_handler picks a free slot and may make it the default one.
LEMMA RegisterFindKeeps ==
    ASSUME TableInv, NEW t \in Thread, RegisterFind(t)
    PROVE  TableInv'
<1>. USE TableAssumption DEF LockedPc, RegisterPc, UnregisterPc, MidPc
<1>1. PICK i \in Index :
        /\ pc[t] = "reg_find" /\ pc' = [pc EXCEPT ![t] = "reg_cb"]
        /\ IsFree(i)
        /\ index' = [index EXCEPT ![t] = i]
        /\ req[t].cb = DefaultCb => ~(g_default_handler_index >= 0)
        /\ g_default_handler_index' =
              IF req[t].cb = DefaultCb THEN i ELSE g_default_handler_index
        /\ UNCHANGED <<g_state, g_handlers, g_handler_count, semcount, req, ret, invokeVars>>
  BY DEF RegisterFind, AlreadyDefault, FirstFree
<1>2. /\ semcount = 0 /\ ipc = "idle"
      /\ \A u \in Thread : u # t => pc[u] \notin LockedPc
  BY <1>1, Alone DEF TableInv
<1>3. g_handlers[i] = Free /\ g_default_handler_index # i
  BY <1>1, <1>2 DEF TableInv, SlotInv, DefaultAt, IsFree, Free, Registration
<1>4. req[t].cb = DefaultCb => g_default_handler_index = -1
  BY <1>1 DEF TableInv, TableTypeOK, Index
<1>5. TableTypeOK' /\ SemaInv'
  BY <1>1, <1>2 DEF TableInv, TableTypeOK, SemaInv, CallPc, Index, invokeVars
<1>6. SlotInv'
  <2>1. pc'[t] = "reg_cb" /\ index'[t] = i
    BY <1>1 DEF TableInv, TableTypeOK
  <2>2. ASSUME NEW j \in Index, j # i
        PROVE  g_handlers'[j] \in Registration \cup {Free} /\ DefaultAt(j)'
    <3>1. g_handlers[j] \in Registration \cup {Free} /\ DefaultAt(j) /\ j # -1
      BY <1>1, <1>2 DEF TableInv, SlotInv, Index
    <3>. QED
      BY <1>1, <1>4, <2>2, <3>1 DEF DefaultAt
  <2>. QED
    BY <2>1, <2>2 DEF SlotInv
<1>7. \A u \in Thread : (RequestInv(u) /\ OwnSlotInv(u))'
  BY <1>1, <1>2, <1>3 DEF TableInv, TableTypeOK, RequestInv, OwnSlotInv
<1>8. CountInv' /\ InvokeInv' /\ ResultsHold'
  BY <1>1, <1>2 DEF TableInv, TableTypeOK, CountInv, InvokeInv, ResultsHold, Occupied, IsFree,
     invokeVars
<1>. QED
  BY <1>5, <1>6, <1>7, <1>8 DEF TableInv

\* register_handler completes the slot and the count catches up.
LEMMA RegisterArgKeeps ==
    ASSUME TableInv, NEW t \in Thread, RegisterArg(t)
    PROVE  TableInv'
<1>. USE TableAssumption DEF LockedPc, RegisterPc, UnregisterPc, MidPc
<1>. DEFINE i == index[t]
<1>1. /\ pc[t] = "reg_arg" /\ pc' = [pc EXCEPT ![t] = "signal"]
      /\ g_handlers' = [g_handlers EXCEPT ![i].arg = req[t].arg]
      /\ g_handler_count' = g_handler_count + 1
      /\ ret' = [ret EXCEPT ![t] = i]
      /\ UNCHANGED <<g_state, g_default_handler_index, semcount, req, index, invokeVars>>
  BY DEF RegisterArg, GoTo
<1>2. /\ semcount = 0 /\ ipc = "idle"
      /\ \A u \in Thread : u # t => pc[u] \notin LockedPc
  BY <1>1, Alone DEF TableInv
<1>3. /\ i \in Index /\ req[t] \in Registration
      /\ g_handlers[i].cb = req[t].cb
      /\ req[t].cb = DefaultCb <=> g_default_handler_index = i
  BY <1>1 DEF TableInv, RequestInv, OwnSlotInv
<1>4. /\ g_handlers' \in [Index -> Slot]
      /\ g_handlers'[i] = req[t]
      /\ \A j \in Index : j # i => g_handlers'[j] = g_handlers[j]
      /\ \A j \in Index : g_handlers'[j].cb = g_handlers[j].cb
  BY <1>1, <1>3 DEF TableInv, TableTypeOK, Slot, Free, Registration, AnyCb, AnyArg
<1>5. Occupied' = Occupied
  BY <1>4 DEF Occupied, IsFree
<1>6. g_handler_count' = Cardinality(Occupied') /\ g_handler_count' \in 0 .. MaxHandlers
  BY <1>1, <1>5, CardOccupied DEF TableInv, CountInv
<1>7. TableTypeOK' /\ SemaInv'
  BY <1>1, <1>2, <1>3, <1>4, <1>6 DEF TableInv, TableTypeOK, SemaInv, CallPc, Index, invokeVars
<1>8. \A j \in Index : g_handlers'[j] \in Registration \cup {Free} /\ DefaultAt(j)'
  BY <1>1, <1>2, <1>3, <1>4 DEF TableInv, SlotInv, DefaultAt
<1>9. \A u \in Thread : (RequestInv(u) /\ OwnSlotInv(u))'
  BY <1>1, <1>2 DEF TableInv, TableTypeOK, RequestInv, OwnSlotInv
<1>10. CountInv' /\ InvokeInv'
  BY <1>1, <1>2, <1>6 DEF TableInv, TableTypeOK, CountInv, InvokeInv, invokeVars
<1>11. ResultsHold'
  <2>1. ret'[t] = i /\ i >= 0
    BY <1>1, <1>3 DEF TableInv, TableTypeOK, Index
  <2>2. req[t].cb = DefaultCb => {j \in Index : g_handlers'[j].cb = DefaultCb} = {i}
    BY <1>1, <1>3, <1>8 DEF DefaultAt
  <2>3. req[t] # Free
    BY <1>3 DEF Registration, Free
  <2>. QED
    BY <1>1, <1>2, <1>4, <2>1, <2>2, <2>3 DEF TableInv, TableTypeOK, ResultsHold,
       Registering, KPRINTF_ERR_MAX_HANDLERS
<1>. QED
  BY <1>7, <1>8, <1>9, <1>10, <1>11 DEF TableInv, SlotInv

\* unregister_handler forgets the default index when it removes that handler.
LEMMA UnregisterCheckKeeps ==
    ASSUME TableInv, NEW t \in Thread, UnregisterCheck(t)
    PROVE  TableInv'
<1>. USE TableAssumption DEF LockedPc, RegisterPc, UnregisterPc, MidPc
<1>. DEFINE i == index[t]
<1>1. /\ pc[t] = "unreg_check" /\ pc' = [pc EXCEPT ![t] = "unreg_cb"]
      /\ i \in Index /\ ~IsFree(i)
      /\ g_default_handler_index' =
            IF i = g_default_handler_index THEN -1 ELSE g_default_handler_index
      /\ UNCHANGED <<g_state, g_handlers, g_handler_count, semcount, req, index, ret, invokeVars>>
  BY DEF UnregisterCheck
<1>2. /\ semcount = 0 /\ ipc = "idle"
      /\ \A u \in Thread : u # t => pc[u] \notin LockedPc
  BY <1>1, Alone DEF TableInv
<1>3. g_handlers[i] \in Registration /\ g_default_handler_index' # i
  BY <1>1, <1>2 DEF TableInv, SlotInv, IsFree, Free, Index
<1>4. TableTypeOK' /\ SemaInv'
  BY <1>1, <1>2 DEF TableInv, TableTypeOK, SemaInv, CallPc, Index, invokeVars
<1>5. SlotInv'
  BY <1>1, <1>2 DEF TableInv, TableTypeOK, SlotInv, DefaultAt, Index
<1>6. \A u \in Thread : (RequestInv(u) /\ OwnSlotInv(u))'
  BY <1>1, <1>2, <1>3 DEF TableInv, TableTypeOK, RequestInv, OwnSlotInv
<1>7. CountInv' /\ InvokeInv' /\ ResultsHold'
  BY <1>1, <1>2 DEF TableInv, TableTypeOK, CountInv, InvokeInv, ResultsHold, Occupied, IsFree,
     invokeVars
<1>. QED
  BY <1>4, <1>5, <1>6, <1>7 DEF TableInv

\* unregister_handler clears cb: one slot less is occupied, the count lags behind.
LEMMA UnregisterCbKeeps ==
    ASSUME TableInv, NEW t \in Thread, UnregisterCb(t)
    PROVE  TableInv'
<1>. USE TableAssumption DEF LockedPc, RegisterPc, UnregisterPc, MidPc
<1>. DEFINE i == index[t]
<1>1. /\ pc[t] = "unreg_cb" /\ pc' = [pc EXCEPT ![t] = "unreg_arg"]
      /\ g_handlers' = [g_handlers EXCEPT ![i].cb = NoCb]
      /\ UNCHANGED <<g_state, g_handler_count, g_default_handler_index, semcount, req,
                     index, ret, invokeVars>>
  BY DEF UnregisterCb
<1>2. /\ semcount = 0 /\ ipc = "idle"
      /\ \A u \in Thread : u # t => pc[u] \notin LockedPc
  BY <1>1, Alone DEF TableInv
<1>3. i \in Index /\ g_handlers[i] \in Registration /\ g_default_handler_index # i
  BY <1>1 DEF TableInv, RequestInv, OwnSlotInv
<1>4. /\ g_handlers' \in [Index -> Slot]
      /\ g_handlers'[i].cb = NoCb
      /\ \A j \in Index : j # i => g_handlers'[j] = g_handlers[j]
      /\ g_handlers[i].cb # NoCb
  BY <1>1, <1>3 DEF TableInv, TableTypeOK, Slot, Registration, AnyCb, AnyArg
<1>5. TableTypeOK' /\ SemaInv'
  BY <1>1, <1>2, <1>4 DEF TableInv, TableTypeOK, SemaInv, CallPc, invokeVars
<1>6. SlotInv'
  BY <1>1, <1>2, <1>4 DEF TableInv, TableTypeOK, SlotInv, DefaultAt
<1>7. \A u \in Thread : (RequestInv(u) /\ OwnSlotInv(u))'
  BY <1>1, <1>2, <1>3, <1>4 DEF TableInv, TableTypeOK, RequestInv, OwnSlotInv
<1>8. CountInv'
  <2>1. Occupied' = Occupied \ {i} /\ i \in Occupied
    BY <1>3, <1>4 DEF Occupied, IsFree
  <2>2. Cardinality(Occupied') = Cardinality(Occupied) - 1
    BY <2>1, CardOccupied, FS_RemoveElement
  <2>3. g_handler_count = Cardinality(Occupied)
    BY <1>1, <1>2 DEF TableInv, CountInv
  <2>. QED
    BY <1>1, <1>2, <2>2, <2>3 DEF TableInv, TableTypeOK, CountInv
<1>9. InvokeInv' /\ ResultsHold'
  BY <1>1, <1>2 DEF TableInv, TableTypeOK, InvokeInv, ResultsHold, invokeVars
<1>. QED
  BY <1>5, <1>6, <1>7, <1>8, <1>9 DEF TableInv

\* unregister_handler completes the removal and the count catches up.
LEMMA UnregisterArgKeeps ==
    ASSUME TableInv, NEW t \in Thread, UnregisterArg(t)
    PROVE  TableInv'
<1>. USE TableAssumption DEF LockedPc, RegisterPc, UnregisterPc, MidPc
<1>. DEFINE i == index[t]
<1>1. /\ pc[t] = "unreg_arg" /\ pc' = [pc EXCEPT ![t] = "signal"]
      /\ g_handlers' = [g_handlers EXCEPT ![i].arg = NoArg]
      /\ g_handler_count' = g_handler_count - 1
      /\ ret' = [ret EXCEPT ![t] = 0]
      /\ UNCHANGED <<g_state, g_default_handler_index, semcount, req, index, invokeVars>>
  BY DEF UnregisterArg, GoTo
<1>2. /\ semcount = 0 /\ ipc = "idle"
      /\ \A u \in Thread : u # t => pc[u] \notin LockedPc
  BY <1>1, Alone DEF TableInv
<1>3. /\ i \in Index /\ req[t] = Free
      /\ g_handlers[i].cb = NoCb /\ g_default_handler_index # i
  BY <1>1 DEF TableInv, RequestInv, OwnSlotInv
<1>4. /\ g_handlers' \in [Index -> Slot]
      /\ g_handlers'[i] = Free
      /\ \A j \in Index : j # i => g_handlers'[j] = g_handlers[j]
      /\ \A j \in Index : g_handlers'[j].cb = g_handlers[j].cb
  BY <1>1, <1>3 DEF TableInv, TableTypeOK, Slot, Free
<1>5. Occupied' = Occupied
  BY <1>4 DEF Occupied, IsFree
<1>6. g_handler_count' = Cardinality(Occupied') /\ g_handler_count' \in 0 .. MaxHandlers
  BY <1>1, <1>5, CardOccupied DEF TableInv, CountInv
<1>7. TableTypeOK' /\ SemaInv'
  BY <1>1, <1>2, <1>3, <1>4, <1>6 DEF TableInv, TableTypeOK, SemaInv, CallPc, Index, invokeVars
<1>8. \A j \in Index : g_handlers'[j] \in Registration \cup {Free} /\ DefaultAt(j)'
  BY <1>1, <1>2, <1>3, <1>4 DEF TableInv, SlotInv, DefaultAt, Free
<1>9. \A u \in Thread : (RequestInv(u) /\ OwnSlotInv(u))'
  BY <1>1, <1>2 DEF TableInv, TableTypeOK, RequestInv, OwnSlotInv
<1>10. CountInv' /\ InvokeInv'
  BY <1>1, <1>2, <1>6 DEF TableInv, TableTypeOK, CountInv, InvokeInv, invokeVars
<1>11. ResultsHold'
  BY <1>1, <1>2, <1>3, <1>4 DEF TableInv, TableTypeOK, ResultsHold, Registering, IsFree, Free,
     KPRINTF_ERR_MAX_HANDLERS
<1>. QED
  BY <1>7, <1>8, <1>9, <1>10, <1>11 DEF TableInv, SlotInv

\* The events thread does not write to the table.
LEMMA FlushStepsKeep ==
    ASSUME TableInv, FlushAcquire \/ InvokeBegin \/ InvokeStep \/ FlushRelease
    PROVE  TableInv'
<1>. USE TableAssumption DEF LockedPc, RegisterPc, UnregisterPc, MidPc
<1>1. UNCHANGED <<g_state, tableVars, callVars>>
  BY DEF FlushAcquire, InvokeBegin, InvokeStep, InvokeTest, InvokeCall, CallbackReturns,
     InvokeEnd, FlushRelease
<1>2. ipc # "idle" => semcount = 0
  BY DEF TableInv, SemaInv, TableTypeOK
<1>3. TableTypeOK' /\ InvokeInv'
  <2>1. CASE FlushAcquire \/ InvokeBegin \/ InvokeEnd \/ FlushRelease
    BY <1>1, <1>2, <2>1 DEF FlushAcquire, InvokeBegin, InvokeEnd, FlushRelease, WaitSema, TableInv,
       TableTypeOK, InvokeInv, InvokePc, tableVars, callVars
  <2>2. CASE InvokeTest
    BY <1>1, <2>2 DEF InvokeTest, TableInv, TableTypeOK, InvokeInv, InvokePc, IsFree, Index,
       tableVars, callVars
  <2>3. CASE InvokeCall
    BY <1>1, <2>3 DEF InvokeCall, TableInv, TableTypeOK, InvokeInv, InvokePc, IsFree,
       tableVars, callVars
  <2>4. CASE CallbackReturns
    <3>1. Free \in Slot
      BY DEF Free, Slot
    <3>2. slot \in Index /\ slot' \in {slot + 1, MaxHandlers} /\ ipc' = "test" /\ running' = Free
          /\ UNCHANGED semcount
      BY <2>4 DEF CallbackReturns, TableInv, InvokeInv
    <3>3. slot' \in 0 .. MaxHandlers
      BY <3>2 DEF Index
    <3>. QED
      BY <1>1, <3>1, <3>2, <3>3 DEF TableInv, TableTypeOK, InvokeInv, InvokePc,
         tableVars, callVars
  <2>. QED
    BY <2>1, <2>2, <2>3, <2>4 DEF InvokeStep
<1>4. SemaInv'
  BY <1>1, <1>2 DEF FlushAcquire, InvokeBegin, InvokeStep, InvokeTest, InvokeCall,
     CallbackReturns, InvokeEnd, FlushRelease, WaitSema, TableInv, SemaInv, callVars
<1>5. /\ SlotInv' /\ CountInv' /\ ResultsHold'
      /\ \A u \in Thread : (RequestInv(u) /\ OwnSlotInv(u))'
  BY <1>1 DEF TableInv, SlotInv, DefaultAt, CountInv, ResultsHold, RequestInv, OwnSlotInv,
     Occupied, IsFree, Registering, tableVars, callVars
<1>. QED
  BY <1>3, <1>4, <1>5 DEF TableInv

\* The table as the module is loaded satisfies the invariant.
LEMMA TableInvInit == TableInit => TableInv
<1>. SUFFICES ASSUME TableInit PROVE TableInv
  OBVIOUS
<1>. USE TableAssumption DEF TableInit
<1>1. TableTypeOK
  BY DEF TableTypeOK, State, Index, Slot, Free, CallPc, InvokePc
<1>2. Occupied = {} /\ Cardinality(Occupied) = 0
  BY FS_EmptySet DEF Occupied, IsFree, Free
<1>3. SemaInv /\ CountInv /\ InvokeInv /\ ResultsHold
  BY <1>2 DEF SemaInv, LockedPc, RegisterPc, UnregisterPc, CountInv, InvokeInv, ResultsHold
<1>4. SlotInv
  BY DEF SlotInv, DefaultAt, Free, Index
<1>5. \A t \in Thread : RequestInv(t) /\ OwnSlotInv(t)
  BY DEF RequestInv, OwnSlotInv, MidPc, RegisterPc, UnregisterPc
<1>. QED
  BY <1>1, <1>3, <1>4, <1>5 DEF TableInv

\* A change of g_state does not touch the table.
LEMMA ModuleStateKeeps ==
    ASSUME TableInv,
           g_state' \in State,
           UNCHANGED <<tableVars, semcount, callVars, invokeVars>>
    PROVE  TableInv'
<1>1. TableTypeOK'
  BY DEF TableInv, TableTypeOK, tableVars, callVars, invokeVars
<1>2. SemaInv' /\ SlotInv' /\ CountInv' /\ InvokeInv'
  BY DEF TableInv, SemaInv, SlotInv, DefaultAt, CountInv, InvokeInv, Occupied, IsFree,
     tableVars, callVars, invokeVars
<1>3. ResultsHold' /\ \A u \in Thread : (RequestInv(u) /\ OwnSlotInv(u))'
  BY DEF TableInv, ResultsHold, RequestInv, OwnSlotInv, Registering, Occupied, IsFree,
     tableVars, callVars, invokeVars
<1>. QED
  BY <1>1, <1>2, <1>3 DEF TableInv

\* Every step of an API call between wait and signal keeps the invariant.
LEMMA ApiStepKeeps ==
    ASSUME TableInv, NEW t \in Thread, ApiStep(t)
    PROVE  TableInv'
BY RefusalsKeep, RegisterFindKeeps, RegisterCbKeeps, RegisterArgKeeps, UnregisterCheckKeeps,
   UnregisterCbKeeps, UnregisterArgKeeps, CallEndsKeep DEF ApiStep

\* Every step of handler.c keeps the invariant.
LEMMA TableInvStep == TableInv /\ [TableNext]_handlerVars => TableInv'
<1>. SUFFICES ASSUME TableInv, [TableNext]_handlerVars PROVE TableInv'
  OBVIOUS
<1>1. CASE ModuleState
  BY <1>1, ModuleStateKeeps DEF ModuleState, State
<1>2. ASSUME NEW t \in Thread,
             \/ \E reg \in Registration : RegisterCall(t, reg)
             \/ \E i \in -1 .. MaxHandlers : UnregisterCall(t, i)
      PROVE  TableInv'
  BY <1>2, CallsKeep
<1>3. ASSUME NEW t \in Thread, Acquire(t)
      PROVE  TableInv'
  BY <1>3, AcquireKeeps
<1>4. ASSUME NEW t \in Thread, AcquireFails(t) \/ Announce(t)
      PROVE  TableInv'
  BY <1>4, CallEndsKeep
<1>5. ASSUME NEW t \in Thread, ApiStep(t)
      PROVE  TableInv'
  BY <1>5, ApiStepKeeps
<1>6. CASE FlushAcquire \/ InvokeBegin \/ InvokeStep \/ FlushRelease
  BY <1>6, FlushStepsKeep
<1>7. CASE UNCHANGED handlerVars
  <2>1. g_state' \in State /\ UNCHANGED <<tableVars, semcount, callVars, invokeVars>>
    BY <1>7 DEF handlerVars, TableInv, TableTypeOK
  <2>. QED
    BY <2>1, ModuleStateKeeps
<1>. QED
  BY <1>1, <1>2, <1>3, <1>4, <1>5, <1>6, <1>7 DEF TableNext

\* The inductive invariant of handler.c.
THEOREM TableInvariant == TableSpec => []TableInv
BY TableInvInit, TableInvStep, PTL DEF TableSpec

\* Every variable of handler.c keeps its type; in particular the semaphore's
\* count never exceeds 1 and g_handler_count stays within the table.
THEOREM TableTypeCorrect == TableSpec => []TableTypeOK
<1>1. TableInv => TableTypeOK
  BY DEF TableInv
<1>. QED
  BY <1>1, TableInvariant, PTL

\* A free semaphore means that no call is half-way, and so every slot is in order.
LEMMA TableInvImpliesConsistent == TableInv => TableConsistent
<1>. SUFFICES ASSUME TableInv, semcount = 1
              PROVE  /\ g_handler_count = Cardinality(Occupied)
                     /\ \A i \in Index : g_handlers[i] \in Registration \cup {Free} /\ DefaultAt(i)
  BY DEF TableConsistent, DefaultAt
<1>1. \A t \in Thread : pc[t] \notin LockedPc
  BY DEF TableInv, SemaInv
<1>. QED
  BY <1>1 DEF TableInv, SlotInv, CountInv, LockedPc, RegisterPc, UnregisterPc, MidPc

\* Whenever g_semid is free, the count, the default index and the slots of the
\* table agree, after any sequence of register_handler and unregister_handler.
THEOREM TableStaysConsistent == TableSpec => []TableConsistent
BY TableInvImpliesConsistent, TableInvariant, PTL

\* What register_handler and unregister_handler return is true of the table.
THEOREM ResultsCorrect == TableSpec => []ResultsHold
<1>1. TableInv => ResultsHold
  BY DEF TableInv
<1>. QED
  BY <1>1, TableInvariant, PTL

\* A semaphore that is taken has been taken by somebody who still has it.
Held == semcount = 0 => ipc # "idle" \/ \E t \in Thread : pc[t] \in LockedPc

\* Every way out of the critical section gives the semaphore back.
LEMMA HeldStep == TableInv /\ Held /\ [TableNext]_handlerVars => Held'
<1>. SUFFICES ASSUME TableInv, Held, [TableNext]_handlerVars, semcount' = 0
              PROVE  ipc' # "idle" \/ \E t \in Thread : pc'[t] \in LockedPc
  BY DEF Held
<1>. USE DEF LockedPc, RegisterPc, UnregisterPc
<1>1. pc \in [Thread -> CallPc] /\ semcount \in {0, 1}
  BY DEF TableInv, TableTypeOK
<1>2. CASE UNCHANGED <<semcount, ipc, pc>>
  BY <1>2 DEF Held
<1>3. ASSUME NEW t \in Thread,
             UNCHANGED <<semcount, ipc>>,
             \E label \in CallPc : pc' = [pc EXCEPT ![t] = label],
             pc[t] \notin LockedPc
      PROVE  ipc' # "idle" \/ \E u \in Thread : pc'[u] \in LockedPc
  BY <1>1, <1>3 DEF Held
<1>4. ASSUME NEW t \in Thread,
             \/ \E reg \in Registration : RegisterCall(t, reg)
             \/ \E i \in -1 .. MaxHandlers : UnregisterCall(t, i)
             \/ AcquireFails(t)
             \/ Announce(t)
      PROVE  ipc' # "idle" \/ \E u \in Thread : pc'[u] \in LockedPc
  <2>1. UNCHANGED <<semcount, ipc>> /\ pc[t] \notin LockedPc
    BY <1>4 DEF RegisterCall, UnregisterCall, MayCall, AcquireFails, Announce, invokeVars
  <2>2. \E label \in CallPc : pc' = [pc EXCEPT ![t] = label]
    BY <1>4 DEF RegisterCall, UnregisterCall, EnterRegister, EnterUnregister, AcquireFails, Announce, CallPc
  <2>. QED
    BY <1>3, <2>1, <2>2
<1>5. ASSUME NEW t \in Thread, Acquire(t)
      PROVE  pc'[t] \in LockedPc
  BY <1>1, <1>5 DEF Acquire
<1>6. ASSUME NEW t \in Thread, ApiStep(t)
      PROVE  pc'[t] \in LockedPc
  <2>1. CASE Signal(t)
    <3>1. semcount = 0
      BY <2>1, Alone DEF TableInv, Signal
    <3>. QED
      BY <2>1, <3>1 DEF Signal
  <2>2. CASE RegisterRefused(t) \/ RegisterFind(t) \/ RegisterCb(t) \/ RegisterArg(t)
    BY <1>1, <2>2 DEF RegisterRefused, RegisterFind, RegisterCb, RegisterArg, GoTo
  <2>3. CASE UnregisterRefused(t) \/ UnregisterCheck(t) \/ UnregisterCb(t) \/ UnregisterArg(t)
    BY <1>1, <2>3 DEF UnregisterRefused, UnregisterCheck, UnregisterCb, UnregisterArg, GoTo
  <2>. QED
    BY <1>6, <2>1, <2>2, <2>3 DEF ApiStep
<1>7. CASE FlushAcquire \/ InvokeBegin \/ InvokeStep
  BY <1>7 DEF FlushAcquire, InvokeBegin, InvokeStep, InvokeTest, InvokeCall, CallbackReturns, InvokeEnd
<1>8. ~FlushRelease
  BY <1>1 DEF FlushRelease, TableInv, SemaInv
<1>. QED
  BY <1>2, <1>4, <1>5, <1>6, <1>7, <1>8 DEF TableNext, ModuleState, handlerVars, callVars, invokeVars

\* Handlers do not call the API: the events thread makes no call at all.
LEMMA EventsThreadCallsNothing ==
    ASSUME ~CallbackApi
    PROVE  TableInv /\ pc[EvThread] = "idle" /\ [TableNext]_handlerVars => pc'[EvThread] = "idle"
<1>. SUFFICES ASSUME TableInv, pc[EvThread] = "idle", [TableNext]_handlerVars
              PROVE  pc'[EvThread] = "idle"
  OBVIOUS
<1>1. pc \in [Thread -> CallPc] /\ EvThread \in Thread
  BY TableAssumption DEF TableInv, TableTypeOK
<1>2. ASSUME NEW t \in Thread,
             \/ \E reg \in Registration : RegisterCall(t, reg)
             \/ \E i \in -1 .. MaxHandlers : UnregisterCall(t, i)
      PROVE  pc'[EvThread] = "idle"
  BY <1>1, <1>2 DEF RegisterCall, UnregisterCall, EnterRegister, EnterUnregister, MayCall
<1>3. ASSUME NEW t \in Thread, Acquire(t) \/ AcquireFails(t) \/ Announce(t)
      PROVE  pc'[EvThread] = "idle"
  BY <1>1, <1>3 DEF Acquire, AcquireFails, Announce
<1>4. ASSUME NEW t \in Thread, ApiStep(t)
      PROVE  pc'[EvThread] = "idle"
  BY <1>1, <1>4 DEF ApiStep, RegisterRefused, RegisterFind, RegisterCb, RegisterArg, UnregisterRefused,
     UnregisterCheck, UnregisterCb, UnregisterArg, Signal, GoTo
<1>5. CASE ModuleState \/ FlushAcquire \/ InvokeBegin \/ InvokeStep \/ FlushRelease \/ UNCHANGED handlerVars
  BY <1>5 DEF ModuleState, FlushAcquire, InvokeBegin, InvokeStep, InvokeTest, InvokeCall, CallbackReturns,
     InvokeEnd, FlushRelease, handlerVars, callVars
<1>. QED
  BY <1>2, <1>3, <1>4, <1>5 DEF TableNext

\* Unless handlers call the API themselves, the holder of the semaphore never
\* waits for it: every error path of register_handler, unregister_handler and
\* event_thread gives it back, for any number of threads and slots.
THEOREM HolderAlwaysRuns ==
    ASSUME ~CallbackApi
    PROVE  TableSpec => []HolderRuns
<1>1. TableInit => TableInv /\ Held /\ pc[EvThread] = "idle"
  BY TableInvInit, TableAssumption DEF TableInit, Held
<1>2. TableInv /\ Held /\ pc[EvThread] = "idle" /\ [TableNext]_handlerVars =>
         (TableInv /\ Held /\ pc[EvThread] = "idle")'
  BY TableInvStep, HeldStep, EventsThreadCallsNothing
<1>3. Held /\ pc[EvThread] = "idle" => HolderRuns
  BY DEF Held, HolderRuns, Waiting
<1>. QED
  BY <1>1, <1>2, <1>3, PTL DEF TableSpec

\* No call is between wait and signal while a handler runs, so its slot is in order.
LEMMA TableInvImpliesRunning == TableInv => RunningIsRegistered
<1>. SUFFICES ASSUME TableInv, ipc = "callback"
              PROVE  running \in Registration /\ running = g_handlers[slot]
  BY DEF RunningIsRegistered
<1>1. \A t \in Thread : pc[t] \notin LockedPc
  BY DEF TableInv, SemaInv
<1>2. slot \in Index /\ ~IsFree(slot) /\ running = g_handlers[slot]
  BY DEF TableInv, InvokeInv
<1>3. g_handlers[slot] \in Registration \cup {Free}
  BY <1>1, <1>2 DEF TableInv, SlotInv, LockedPc, RegisterPc, UnregisterPc, MidPc
<1>. QED
  BY <1>2, <1>3 DEF IsFree, Free

\* unregister_handler never takes a handler away while invoke_handlers runs it.
THEOREM RunningStaysRegistered == TableSpec => []RunningIsRegistered
BY TableInvImpliesRunning, TableInvariant, PTL

-----------------------------------------------------------------------------
(***************************************************************************)
(* The table implements the registry.  RegView is what a user of the       *)
(* registry sees of the table; the calls change it in the step that writes *)
(* the last field of a slot (add) or its first one (remove).               *)
(***************************************************************************)
NoCallback == ipc # "callback" => running = Free

RegistryInv == TableInv /\ NoCallback

RegView   == <<ViewTable, ViewLeft, Inside, running>>

\* Free is the registration of no slot that is occupied.
LEMMA OccupiedNotFree == ASSUME NEW i \in Index, ~IsFree(i) PROVE g_handlers[i] # Free
BY DEF IsFree, Free

\* Outside a call, the registry sees every occupied slot.
LEMMA ViewAtRest ==
    ASSUME TableInv, ipc # "idle"
    PROVE  /\ \A t \in Thread : pc[t] \notin LockedPc
           /\ \A i \in Index : ~BeingAdded(i)
           /\ ViewTable = [i \in Index |-> IF IsFree(i) THEN Free ELSE g_handlers[i]]
BY DEF TableInv, SemaInv, BeingAdded, ViewTable, LockedPc, RegisterPc

\* Steps that write neither a slot nor the loop, and leave "reg_arg" alone,
\* are not seen.
LEMMA CallStepsUnseen ==
    ASSUME UNCHANGED <<g_handlers, invokeVars>>,
           \A u \in Thread : pc'[u] = "reg_arg" <=> pc[u] = "reg_arg",
           \A u \in Thread : pc[u] = "reg_arg" => index'[u] = index[u]
    PROVE  UNCHANGED RegView
<1>1. \A i \in Index : BeingAdded(i)' <=> BeingAdded(i)
  BY DEF BeingAdded
<1>2. \A i \in Index : IsFree(i)' <=> IsFree(i)
  BY DEF IsFree
<1>3. ViewTable' = ViewTable
  BY <1>1, <1>2 DEF ViewTable
<1>4. UNCHANGED <<ViewLeft, Inside, running>>
  BY <1>2 DEF ViewLeft, StillToVisit, Inside, invokeVars
<1>. QED
  BY <1>3, <1>4 DEF RegView

\* Neither are the steps of a call that do not write to a slot.
LEMMA WaitsAndTestsUnseen ==
    ASSUME TableInv, NEW t \in Thread,
           \/ \E reg \in Registration : RegisterCall(t, reg)
           \/ \E i \in -1 .. MaxHandlers : UnregisterCall(t, i)
           \/ Acquire(t) \/ AcquireFails(t) \/ Announce(t)
           \/ RegisterRefused(t) \/ RegisterFind(t)
           \/ UnregisterRefused(t) \/ UnregisterCheck(t) \/ Signal(t)
    PROVE  UNCHANGED RegView
<1>1. UNCHANGED <<g_handlers, invokeVars>>
  BY DEF RegisterCall, UnregisterCall, Acquire, AcquireFails, Announce, RegisterRefused,
     RegisterFind, UnregisterRefused, UnregisterCheck, Signal, tableVars
<1>2. /\ pc[t] # "reg_arg" /\ pc' = [pc EXCEPT ![t] = pc'[t]] /\ pc'[t] # "reg_arg"
      /\ \A u \in Thread : u # t => index'[u] = index[u]
  BY DEF RegisterCall, UnregisterCall, MayCall, EnterRegister, EnterUnregister,
     Acquire, AcquireFails, Announce, RegisterRefused, RegisterFind, UnregisterRefused,
     UnregisterCheck, Signal, GoTo, Forget, TableInv, TableTypeOK
<1>3. \A u \in Thread : u # t => pc'[u] = pc[u]
  BY <1>2 DEF TableInv, TableTypeOK
<1>. QED
  BY <1>1, <1>2, <1>3, CallStepsUnseen

\* The first write of a registration, and the last one of a removal, are not seen.
LEMMA HalfWritesUnseen ==
    ASSUME TableInv, NEW t \in Thread, RegisterCb(t) \/ UnregisterArg(t)
    PROVE  UNCHANGED RegView
<1>. USE TableAssumption DEF LockedPc, RegisterPc, UnregisterPc, MidPc
<1>. DEFINE i == index[t]
<1>1. /\ pc[t] \in {"reg_cb", "unreg_arg"} /\ i \in Index /\ IsFree(i)
      /\ ipc = "idle" /\ \A u \in Thread : u # t => pc[u] \notin LockedPc
  BY Alone DEF TableInv, RequestInv, OwnSlotInv, IsFree, Free, RegisterCb, UnregisterArg
<1>2. /\ UNCHANGED <<index, invokeVars>>
      /\ \A u \in Thread : u # t => pc'[u] = pc[u]
      /\ \A j \in Index : j # i => g_handlers'[j] = g_handlers[j]
  BY DEF RegisterCb, UnregisterArg, GoTo, TableInv, TableTypeOK
<1>3. IsFree(i)' \/ BeingAdded(i)'
  <2>1. CASE RegisterCb(t)
    BY <2>1 DEF RegisterCb, BeingAdded, TableInv, TableTypeOK
  <2>2. CASE UnregisterArg(t)
    BY <1>1, <2>2 DEF UnregisterArg, IsFree, TableInv, TableTypeOK
  <2>. QED
    BY <2>1, <2>2
<1>4. \A j \in Index : j # i => ~BeingAdded(j) /\ ~BeingAdded(j)'
  BY <1>1, <1>2 DEF BeingAdded
<1>5. ViewTable' = ViewTable
  BY <1>1, <1>2, <1>3, <1>4 DEF ViewTable, IsFree
<1>6. UNCHANGED <<ViewLeft, Inside, running>>
  BY <1>1, <1>2 DEF ViewLeft, StillToVisit, Inside, invokeVars
<1>. QED
  BY <1>5, <1>6 DEF RegView

\* A call takes effect in one step, and between messages.
LEMMA CallTakesEffect ==
    ASSUME TableInv, NEW t \in Thread, RegisterArg(t) \/ UnregisterCb(t)
    PROVE  \E i \in Index :
              /\ ~Inside
              /\ \/ /\ ViewTable[i] = Free
                    /\ \E reg \in Registration : ViewTable' = [ViewTable EXCEPT ![i] = reg]
                 \/ /\ ViewTable[i] # Free
                    /\ ViewTable' = [ViewTable EXCEPT ![i] = Free]
              /\ UNCHANGED <<ViewLeft, Inside, running>>
<1>. USE TableAssumption DEF LockedPc, RegisterPc, UnregisterPc, MidPc
<1>. DEFINE i == index[t]
<1>1. /\ pc[t] \in {"reg_arg", "unreg_cb"} /\ i \in Index
      /\ ipc = "idle" /\ \A u \in Thread : u # t => pc[u] \notin LockedPc
  BY Alone DEF TableInv, RequestInv, RegisterArg, UnregisterCb
<1>2. /\ UNCHANGED <<index, invokeVars>>
      /\ pc'[t] \in {"signal", "unreg_arg"}
      /\ \A u \in Thread : u # t => pc'[u] = pc[u]
      /\ \A j \in Index : j # i => g_handlers'[j] = g_handlers[j]
  BY DEF RegisterArg, UnregisterCb, GoTo, TableInv, TableTypeOK
<1>3. /\ \A j \in Index : j # i => ~BeingAdded(j)
      /\ \A j \in Index : ~BeingAdded(j)'
  BY <1>1, <1>2 DEF BeingAdded
<1>4. ~Inside /\ UNCHANGED <<ViewLeft, Inside, running>>
  BY <1>1, <1>2 DEF ViewLeft, StillToVisit, Inside, invokeVars
<1>5. CASE RegisterArg(t)
  <2>1. /\ req[t] \in Registration /\ g_handlers[i].cb = req[t].cb
        /\ BeingAdded(i)
    BY <1>1, <1>5 DEF TableInv, RequestInv, OwnSlotInv, RegisterArg, BeingAdded
  <2>2. g_handlers'[i] = req[t]
    BY <1>1, <1>5, <2>1 DEF RegisterArg, TableInv, TableTypeOK, Slot, Free, Registration, AnyCb, AnyArg
  <2>3. ~IsFree(i)'
    BY <1>2, <2>1, <2>2 DEF IsFree, Registration
  <2>4. ViewTable[i] = Free
    BY <1>1, <2>1 DEF ViewTable
  <2>5. ViewTable' = [ViewTable EXCEPT ![i] = req[t]]
    BY <1>1, <1>2, <1>3, <2>2, <2>3 DEF ViewTable, IsFree
  <2>. QED
    BY <1>1, <1>4, <2>1, <2>4, <2>5
<1>6. CASE UnregisterCb(t)
  <2>1. g_handlers[i] \in Registration /\ ~BeingAdded(i)
    BY <1>1, <1>6 DEF TableInv, OwnSlotInv, UnregisterCb, BeingAdded
  <2>2. ViewTable[i] # Free
    BY <1>1, <2>1 DEF ViewTable, Registration, Free, IsFree, TableAssumption
  <2>3. IsFree(i)'
    BY <1>1, <1>6 DEF UnregisterCb, IsFree, TableInv, TableTypeOK
  <2>4. ViewTable' = [ViewTable EXCEPT ![i] = Free]
    BY <1>1, <1>2, <1>3, <2>3 DEF ViewTable, IsFree
  <2>. QED
    BY <1>1, <1>4, <2>2, <2>4
<1>. QED
  BY <1>5, <1>6

\* The events thread leaves the table as the registry sees it.
LEMMA InvokeKeepsView ==
    ASSUME TableInv, FlushAcquire \/ InvokeBegin \/ InvokeStep \/ FlushRelease
    PROVE  ViewTable' = ViewTable
<1>1. UNCHANGED <<g_handlers, pc, index>>
  BY DEF FlushAcquire, InvokeBegin, InvokeStep, InvokeTest, InvokeCall, CallbackReturns,
     InvokeEnd, FlushRelease, tableVars, callVars
<1>. QED
  BY <1>1 DEF ViewTable, BeingAdded, IsFree

\* invoke_handlers is the registry's Show, Run, Return and Leave.
LEMMA InvokeFollowsRegistry ==
    ASSUME RegistryInv, FlushAcquire \/ InvokeBegin \/ InvokeStep \/ FlushRelease
    PROVE  \/ UNCHANGED RegView
           \/ Registry!Show
           \/ \E i \in Index : Registry!Run(i)
           \/ Registry!Return
           \/ Registry!Leave
<1>. USE TableAssumption DEF Index
<1>1. /\ TableInv /\ ViewTable' = ViewTable
      /\ UNCHANGED <<g_handlers, pc, index>>
  BY InvokeKeepsView DEF RegistryInv, FlushAcquire, InvokeBegin, InvokeStep, InvokeTest,
     InvokeCall, CallbackReturns, InvokeEnd, FlushRelease, tableVars, callVars
<1>2. \A i \in Index : IsFree(i)' <=> IsFree(i)
  BY <1>1 DEF IsFree
<1>3. slot \in 0 .. MaxHandlers /\ slot' \in 0 .. MaxHandlers
  BY <1>1, FlushStepsKeep DEF TableInv, TableTypeOK
<1>4. CASE FlushAcquire \/ FlushRelease
  <2>1. /\ ipc \in {"idle", "held"} /\ ipc' \in {"idle", "held"}
        /\ UNCHANGED running
    BY <1>4 DEF FlushAcquire, FlushRelease
  <2>. QED
    BY <1>1, <2>1 DEF RegView, ViewLeft, StillToVisit, Inside
<1>5. CASE InvokeBegin
  <2>1. ipc = "held" /\ ipc' = "test" /\ slot' = 0 /\ UNCHANGED running
    BY <1>5 DEF InvokeBegin
  <2>2. ViewLeft' = {i \in Index : ViewTable[i] # Free}
    <3>1. ViewLeft' = {i \in Index : ~IsFree(i)}
      BY <1>2, <2>1 DEF ViewLeft, StillToVisit
    <3>2. \A i \in Index : ViewTable[i] # Free <=> ~IsFree(i)
      BY <1>1, <2>1, ViewAtRest, OccupiedNotFree
    <3>. QED
      BY <3>1, <3>2
  <2>3. ~Inside /\ Inside' = TRUE
    BY <2>1 DEF Inside
  <2>. QED
    BY <1>1, <2>1, <2>2, <2>3 DEF Registry!Show, Registry!Slots, ViewTable, ViewLeft, Inside
<1>6. CASE InvokeTest
  <2>1. /\ ipc = "test" /\ slot \in Index /\ UNCHANGED running
        /\ ipc' = IF IsFree(slot) THEN "test" ELSE "call"
        /\ slot' = IF IsFree(slot) THEN slot + 1 ELSE slot
    BY <1>6 DEF InvokeTest
  <2>2. \A i \in Index : StillToVisit(i)' <=> StillToVisit(i)
    BY <1>2, <1>3, <2>1 DEF StillToVisit
  <2>. QED
    BY <1>1, <2>1, <2>2 DEF RegView, ViewLeft, Inside
<1>7. CASE InvokeCall
  <2>1. /\ ipc = "call" /\ ipc' = "callback" /\ slot' = slot
        /\ running = Free /\ running' = g_handlers[slot]
        /\ slot \in Index /\ ~IsFree(slot)
    BY <1>1, <1>7 DEF InvokeCall, RegistryInv, NoCallback, TableInv, InvokeInv
  <2>2. running' = ViewTable[slot]
    BY <1>1, <2>1, ViewAtRest
  <2>3. slot \in ViewLeft /\ \A j \in ViewLeft : slot <= j
    BY <1>3, <2>1 DEF ViewLeft, StillToVisit
  <2>4. ViewLeft' = ViewLeft \ {slot}
    BY <1>2, <1>3, <2>1 DEF ViewLeft, StillToVisit
  <2>5. Inside /\ Inside' = Inside
    BY <2>1 DEF Inside
  <2>6. Registry!Run(slot)
    BY <1>1, <2>1, <2>2, <2>3, <2>4, <2>5 DEF Registry!Run, ViewTable, ViewLeft, Inside
  <2>. QED
    BY <2>1, <2>6
<1>8. CASE CallbackReturns
  <2>1. /\ ipc = "callback" /\ ipc' = "test"
        /\ slot' \in {slot + 1, MaxHandlers}
        /\ running' = Free
    BY <1>8 DEF CallbackReturns
  <2>2. running # Free
    BY <1>1, <2>1, OccupiedNotFree DEF TableInv, InvokeInv
  <2>3. ViewLeft' \in {ViewLeft, {}}
    <3>1. CASE slot' = slot + 1
      <4>1. \A i \in Index : StillToVisit(i)' <=> StillToVisit(i)
        BY <1>2, <1>3, <2>1, <3>1 DEF StillToVisit
      <4>. QED
        BY <4>1 DEF ViewLeft
    <3>2. CASE slot' = MaxHandlers
      <4>1. \A i \in Index : ~StillToVisit(i)'
        BY <2>1, <3>2 DEF StillToVisit
      <4>. QED
        BY <4>1 DEF ViewLeft
    <3>. QED
      BY <2>1, <3>1, <3>2
  <2>4. Inside' = Inside
    BY <2>1 DEF Inside
  <2>. QED
    BY <1>1, <2>1, <2>2, <2>3, <2>4 DEF Registry!Return, ViewTable, ViewLeft, Inside
<1>9. CASE InvokeEnd
  <2>1. /\ ipc = "test" /\ slot = MaxHandlers /\ ipc' = "held"
        /\ running = Free /\ UNCHANGED running
    BY <1>9 DEF InvokeEnd, RegistryInv, NoCallback
  <2>2. ViewLeft = {} /\ ViewLeft' = {}
    BY <2>1 DEF ViewLeft, StillToVisit
  <2>3. Inside /\ Inside' = FALSE
    BY <2>1 DEF Inside
  <2>. QED
    BY <1>1, <2>1, <2>2, <2>3 DEF Registry!Leave, ViewTable, ViewLeft, Inside
<1>. QED
  BY <1>4, <1>5, <1>6, <1>7, <1>8, <1>9 DEF InvokeStep

\* No handler is taken for running while invoke_handlers is not in one.
LEMMA RegistryInvStep ==
    ASSUME RegistryInv, [TableNext]_handlerVars
    PROVE  RegistryInv'
<1>1. TableInv'
  BY TableInvStep DEF RegistryInv
<1>2. ASSUME UNCHANGED invokeVars
      PROVE  NoCallback'
  BY <1>2 DEF RegistryInv, NoCallback, invokeVars
<1>3. ASSUME FlushAcquire \/ InvokeBegin \/ InvokeStep \/ FlushRelease
      PROVE  NoCallback'
  BY <1>3 DEF RegistryInv, NoCallback, FlushAcquire, InvokeBegin, InvokeStep, InvokeTest,
     InvokeCall, CallbackReturns, InvokeEnd, FlushRelease
<1>4. ASSUME NEW t \in Thread, ApiStep(t)
      PROVE  UNCHANGED invokeVars
  BY <1>4 DEF ApiStep, RegisterRefused, RegisterFind, RegisterCb, RegisterArg,
     UnregisterRefused, UnregisterCheck, UnregisterCb, UnregisterArg, Signal
<1>5. ASSUME NEW t \in Thread,
             \/ \E reg \in Registration : RegisterCall(t, reg)
             \/ \E i \in -1 .. MaxHandlers : UnregisterCall(t, i)
             \/ Acquire(t) \/ AcquireFails(t) \/ Announce(t)
      PROVE  UNCHANGED invokeVars
  BY <1>5 DEF RegisterCall, UnregisterCall, Acquire, AcquireFails, Announce
<1>6. ModuleState \/ UNCHANGED handlerVars => UNCHANGED invokeVars
  BY DEF ModuleState, handlerVars
<1>7. NoCallback'
  BY <1>2, <1>3, <1>4, <1>5, <1>6 DEF TableNext
<1>. QED
  BY <1>1, <1>7 DEF RegistryInv

\* Every step of handler.c is a step of the registry or not seen by it.
LEMMA RegistryStep ==
    RegistryInv /\ [TableNext]_handlerVars => [Registry!RegistryNext]_(Registry!registryVars)
<1>. SUFFICES ASSUME RegistryInv, [TableNext]_handlerVars
              PROVE  [Registry!RegistryNext]_(Registry!registryVars)
  OBVIOUS
<1>0. TableInv
  BY DEF RegistryInv
<1>1. UNCHANGED RegView => UNCHANGED Registry!registryVars
  BY DEF RegView, Registry!registryVars, ViewTable, ViewLeft, Inside
<1>2. CASE ModuleState \/ UNCHANGED handlerVars
  BY <1>1, <1>2, CallStepsUnseen DEF ModuleState, handlerVars, tableVars, callVars
<1>3. ASSUME NEW t \in Thread,
             \/ \E reg \in Registration : RegisterCall(t, reg)
             \/ \E i \in -1 .. MaxHandlers : UnregisterCall(t, i)
             \/ Acquire(t) \/ AcquireFails(t) \/ Announce(t)
             \/ RegisterRefused(t) \/ RegisterFind(t)
             \/ UnregisterRefused(t) \/ UnregisterCheck(t) \/ Signal(t)
      PROVE  UNCHANGED RegView
  BY <1>0, <1>3, WaitsAndTestsUnseen
<1>4. ASSUME NEW t \in Thread, RegisterArg(t) \/ UnregisterCb(t)
      PROVE  Registry!RegistryNext
  <2>1. PICK i \in Index :
          /\ ~Inside
          /\ \/ /\ ViewTable[i] = Free
                /\ \E reg \in Registration : ViewTable' = [ViewTable EXCEPT ![i] = reg]
             \/ /\ ViewTable[i] # Free
                /\ ViewTable' = [ViewTable EXCEPT ![i] = Free]
          /\ UNCHANGED <<ViewLeft, Inside, running>>
    BY <1>0, <1>4, CallTakesEffect
  <2>2. (\E reg \in Registration : Registry!Add(i, reg)) \/ Registry!Remove(i)
    BY <2>1 DEF Registry!Add, Registry!Remove, ViewTable, ViewLeft, Inside
  <2>. QED
    BY <2>1, <2>2 DEF Registry!RegistryNext, Registry!Slots, Index
<1>5. CASE FlushAcquire \/ InvokeBegin \/ InvokeStep \/ FlushRelease
  BY <1>1, <1>5, InvokeFollowsRegistry DEF Registry!RegistryNext, Registry!Slots, Index
<1>6. ASSUME NEW t \in Thread, RegisterCb(t) \/ UnregisterArg(t)
      PROVE  UNCHANGED RegView
  BY <1>0, <1>6, HalfWritesUnseen
<1>. QED
  BY <1>1, <1>2, <1>3, <1>4, <1>5, <1>6 DEF TableNext, ApiStep

\* A table without handlers is an empty registry.
LEMMA RegistryStart == TableInit => RegistryInv /\ Registry!RegistryInit
<1>1. TableInit => RegistryInv
  BY TableInvInit DEF TableInit, RegistryInv, NoCallback
<1>2. TableInit => Registry!RegistryInit
  BY DEF TableInit, Registry!RegistryInit, Registry!Slots, ViewTable, ViewLeft, Inside, Index, IsFree,
     Free, StillToVisit
<1>. QED
  BY <1>1, <1>2

\* handler.c implements the registry, for every number of slots and of threads:
\* calls take effect at once and between messages, and a message visits the
\* handlers that were registered when invoke_handlers began, in index order.
THEOREM TableImplementsRegistry == TableSpec => TableRefinesRegistry
BY RegistryStart, RegistryInvStep, RegistryStep, PTL DEF TableSpec, TableRefinesRegistry,
   Registry!RegistrySpec
=============================================================================

-------------------------- MODULE LogHandlersProofs --------------------------
(***************************************************************************)
(* Proofs about the log helper, for every size of the table and every set  *)
(* of clients.  The invariant follows the loop variable through the table  *)
(* while the called handlers change the table behind it.                   *)
(***************************************************************************)
EXTENDS LogHandlers, TLAPS, FiniteSetTheorems

\* A used slot belongs to one client, and a free one has lost its argument.
SlotsOwned ==
    /\ \A k \in Used :
          /\ g_handlers[k].arg = g_handlers[k].cb
          /\ g_handlers[k].flush \in {g_handlers[k].cb, NULL}
    /\ \A k \in Index \ Used : g_handlers[k].arg = NULL

\* What the loop has left behind it was called or has no function to call.
LoopInv ==
    /\ op = "none" => call = NoCall
    /\ call # NoCall => i \in Index /\ i \notin owed
    /\ owed \subseteq Used
    /\ \A k \in owed : k >= i \/ (op = "flush" /\ g_handlers[k].flush = NULL)
    /\ op # "none" /\ dense => IsDense

LogInv == LogTypeOK /\ CountMatches /\ SlotsOwned /\ LoopInv /\ OwnArgument

\* The used slots are finitely many.
LEMMA UsedFinite == IsFiniteSet(Used)
<1>1. IsFiniteSet(Index)
  BY LogAssumption, FS_Interval DEF Index
<1>2. Used \subseteq Index
  BY DEF Used
<1>. QED
  BY <1>1, <1>2, FS_Subset

\* Registering fills a free slot, so the count grows with the slots.
LEMMA RegisterKeeps ==
    ASSUME LogInv, NEW c \in Client, NEW flush \in {c, NULL}, Register(c, flush)
    PROVE  LogInv'
<1>. USE LogAssumption DEF LogInv
<1>1. PICK k \in Index :
        /\ k \notin Used
        /\ g_handlers' = [g_handlers EXCEPT ![k] = [cb |-> c, flush |-> flush, arg |-> c]]
  BY DEF Register, FirstFree
<1>2. /\ g_handlers \in [Index -> Handler] /\ g_handlers' \in [Index -> Handler]
      /\ [cb |-> c, flush |-> flush, arg |-> c] \in Handler
  BY <1>1 DEF LogTypeOK, Handler, Pointer
<1>3. /\ g_handlers'[k].cb = c /\ g_handlers'[k].arg = c /\ g_handlers'[k].flush = flush
      /\ \A j \in Index \ {k} : g_handlers'[j] = g_handlers[j]
  BY <1>1, <1>2
<1>4. Used' = Used \cup {k}
  BY <1>1, <1>3 DEF Used
<1>5. /\ g_handler_count < LogMaxHandlers
      /\ g_handler_count' = g_handler_count + 1
      /\ UNCHANGED <<op, i, call, owed>>
  BY DEF Register
<1>6. dense' = (dense /\ IsDense')
  BY DEF Register
<1>7. dense' \in BOOLEAN /\ (dense' => dense /\ IsDense')
  BY <1>6
<1>8. LogTypeOK'
  BY <1>2, <1>5, <1>7 DEF LogTypeOK
<1>9. CountMatches'
  BY <1>1, <1>4, <1>5, UsedFinite, FS_AddElement DEF CountMatches
<1>10. SlotsOwned'
  BY <1>1, <1>3, <1>4 DEF SlotsOwned, Used
<1>11. LoopInv'
  <2>1. \A j \in owed : j # k /\ j \in Index
    BY <1>1 DEF LoopInv, Used
  <2>2. \A j \in owed' : j >= i' \/ (op' = "flush" /\ g_handlers'[j].flush = NULL)
    BY <1>3, <1>5, <2>1 DEF LoopInv
  <2>. QED
    BY <1>4, <1>5, <1>7, <2>2 DEF LoopInv
<1>12. OwnArgument'
  BY <1>5, <1>7 DEF OwnArgument
<1>. QED
  BY <1>8, <1>9, <1>10, <1>11, <1>12

\* Unregistering empties a used slot, which the loop then owes nothing.
LEMMA UnregisterKeeps ==
    ASSUME LogInv, NEW k \in Index, Unregister(k)
    PROVE  LogInv'
<1>. USE LogAssumption DEF LogInv
<1>1. /\ k \in Used
      /\ g_handlers' = [g_handlers EXCEPT ![k].cb = NULL, ![k].arg = NULL]
  BY DEF Unregister
<1>2. g_handlers \in [Index -> Handler] /\ g_handlers' \in [Index -> Handler]
  BY <1>1 DEF LogTypeOK, Handler, Pointer
<1>3. /\ g_handlers'[k].cb = NULL
      /\ \A j \in Index \ {k} : g_handlers'[j] = g_handlers[j]
  BY <1>1, <1>2 DEF Handler
<1>3a. g_handlers'[k].arg = NULL
  BY <1>1, <1>2 DEF Handler
<1>4. Used' = Used \ {k}
  BY <1>1, <1>3 DEF Used
<1>5. /\ g_handler_count' = g_handler_count - 1
      /\ owed' = owed \ {k}
      /\ UNCHANGED <<op, i, call>>
  BY DEF Unregister
<1>6. dense' = (dense /\ IsDense')
  BY DEF Unregister
<1>7. dense' \in BOOLEAN /\ (dense' => dense /\ IsDense')
  BY <1>6
<1>8. CountMatches' /\ g_handler_count > 0
  <2>1. /\ Cardinality(Used \ {k}) = Cardinality(Used) - 1
        /\ Cardinality(Used \ {k}) \in Nat
    BY <1>1, UsedFinite, FS_RemoveElement, FS_CardinalityType
  <2>2. g_handler_count = Cardinality(Used) /\ g_handler_count \in Nat
    BY DEF CountMatches, LogTypeOK
  <2>. QED
    BY <1>4, <1>5, <2>1, <2>2 DEF CountMatches
<1>9. LogTypeOK'
  BY <1>2, <1>5, <1>7, <1>8 DEF LogTypeOK
<1>10. SlotsOwned'
  <2>1. \A j \in Used' : j \in Used /\ j \in Index \ {k}
    BY <1>4 DEF Used
  <2>2. \A j \in Index \ Used' : j = k \/ j \in (Index \ {k}) \ Used
    BY <1>4
  <2>. QED
    BY <1>3, <1>3a, <2>1, <2>2 DEF SlotsOwned
<1>11. LoopInv'
  <2>1. \A j \in owed' : j # k /\ j \in Index /\ j \in owed
    BY <1>5 DEF LoopInv, Used
  <2>2. \A j \in owed' : j >= i' \/ (op' = "flush" /\ g_handlers'[j].flush = NULL)
    BY <1>3, <1>5, <2>1 DEF LoopInv
  <2>. QED
    BY <1>4, <1>5, <1>7, <2>2 DEF LoopInv
<1>12. OwnArgument'
  BY <1>5, <1>7 DEF OwnArgument
<1>. QED
  BY <1>8, <1>9, <1>10, <1>11, <1>12

\* Nothing but the loop's own variables changes in the loops.
LEMMA TableSame ==
    ASSUME LogInv, UNCHANGED <<g_handlers, g_handler_count>>
    PROVE  Used' = Used /\ (IsDense' <=> IsDense) /\ CountMatches' /\ SlotsOwned'
BY DEF LogInv, Used, IsDense, CountMatches, SlotsOwned

\* A round of one of the loops calls a function or goes on to the next slot.
LEMMA RoundKeeps ==
    ASSUME LogInv, PrintStep \/ FlushStep
    PROVE  LogInv'
<1>. USE LogAssumption DEF LogInv
<1>1. PICK func \in {g_handlers[i].cb, g_handlers[i].flush} :
        /\ func = IF op = "print" THEN g_handlers[i].cb ELSE g_handlers[i].flush
        /\ Calls(func) \/ Skips(func)
  BY DEF PrintStep, FlushStep
<1>2. /\ op \in {"print", "flush"} /\ call = NoCall
      /\ i \in Index /\ i + 1 \in 0 .. LogMaxHandlers
      /\ op = "flush" => i \in 0 .. g_handler_count - 1
  BY DEF PrintStep, FlushStep, LogTypeOK, Index
<1>3. UNCHANGED <<g_handlers, g_handler_count, op, dense>>
  BY <1>1 DEF Calls, Skips
<1>4. g_handlers[i] \in Handler /\ func \in Pointer /\ g_handlers[i].arg \in Pointer
  BY <1>1, <1>2 DEF LogTypeOK, Handler
<1>5. CASE Calls(func)
  <2>1. /\ func # NULL
        /\ call' = [func |-> func, arg |-> g_handlers[i].arg]
        /\ owed' = owed \ {i}
        /\ UNCHANGED i
    BY <1>5 DEF Calls
  <2>2. call' \in [func : Pointer, arg : Pointer] /\ call' # NoCall
    BY <1>4, <2>1 DEF NoCall
  <2>3. LogTypeOK'
    BY <1>3, <2>1, <2>2 DEF LogTypeOK
  <2>4. LoopInv'
    BY <1>2, <1>3, <2>1, <2>2, TableSame DEF LoopInv
  <2>5. i \in Used => func = g_handlers[i].arg
    BY <1>1, <2>1 DEF SlotsOwned
  <2>6. i \notin Used => op = "flush" /\ ~dense /\ g_handlers[i].arg = NULL
    <3>1. SUFFICES ASSUME i \notin Used
                   PROVE  op = "flush" /\ ~dense /\ g_handlers[i].arg = NULL
      OBVIOUS
    <3>2. op = "flush"
      BY <1>1, <1>2, <2>1, <3>1 DEF Used
    <3>3. ~dense
      BY <1>2, <3>1, <3>2 DEF LoopInv, IsDense
    <3>. QED
      BY <1>2, <3>1, <3>2, <3>3 DEF SlotsOwned
  <2>7. OwnArgument'
    BY <1>3, <2>1, <2>5, <2>6 DEF OwnArgument
  <2>. QED
    BY <1>3, <2>3, <2>4, <2>7, TableSame
<1>6. CASE Skips(func)
  <2>1. func = NULL /\ i' = i + 1 /\ UNCHANGED <<call, owed>>
    BY <1>6 DEF Skips
  <2>2. LogTypeOK'
    BY <1>2, <1>3, <2>1 DEF LogTypeOK
  <2>3. i \in owed => op = "flush" /\ g_handlers[i].flush = NULL
    BY <1>1, <1>2, <2>1 DEF LoopInv, Used
  <2>4. \A k \in owed : k \in Nat
    BY DEF LoopInv, Used, Index
  <2>5. \A k \in owed : k >= i + 1 \/ (op = "flush" /\ g_handlers[k].flush = NULL)
    BY <1>2, <2>3, <2>4 DEF LoopInv, Index
  <2>6. LoopInv'
    BY <1>2, <1>3, <2>1, <2>5, TableSame DEF LoopInv
  <2>7. OwnArgument'
    BY <1>2, <2>1 DEF OwnArgument
  <2>. QED
    BY <1>3, <2>2, <2>6, <2>7, TableSame
<1>. QED
  BY <1>1, <1>5, <1>6

\* The begin and the end of a loop, and the return of a called handler.
LEMMA BoundsKeep ==
    ASSUME LogInv, PrintBegin \/ FlushBegin \/ Returns \/ End
    PROVE  LogInv'
<1>. USE LogAssumption DEF LogInv
<1>1. ASSUME NEW o \in {"print", "flush"}, Begin(o)
      PROVE  LogInv'
  <2>1. /\ op = "none" /\ op' = o /\ i' = 0 /\ owed' = Used
        /\ UNCHANGED <<g_handlers, g_handler_count, call>>
    BY <1>1 DEF Begin
  <2>2. dense' \in BOOLEAN /\ (dense' <=> IsDense)
    BY <1>1 DEF Begin, IsDense
  <2>3. Used \subseteq Index /\ \A k \in Used : k >= 0
    BY DEF Used, Index
  <2>4. LogTypeOK'
    BY <2>1, <2>2, <2>3 DEF LogTypeOK
  <2>5. LoopInv' /\ OwnArgument'
    BY <2>1, <2>2, <2>3, TableSame DEF LoopInv, OwnArgument
  <2>. QED
    BY <2>1, <2>4, <2>5, TableSame
<1>2. CASE Returns
  <2>1. /\ call # NoCall /\ call' = NoCall /\ i' = i + 1
        /\ UNCHANGED <<g_handlers, g_handler_count, op, owed, dense>>
    BY <1>2 DEF Returns
  <2>2. i \in Index /\ i \notin owed /\ \A k \in owed : k \in Nat
    BY <2>1 DEF LoopInv, Used, Index
  <2>3. LogTypeOK'
    BY <2>1, <2>2 DEF LogTypeOK, Index, NoCall, Pointer
  <2>4. LoopInv'
    BY <2>1, <2>2, TableSame DEF LoopInv, Index
  <2>5. OwnArgument'
    BY <2>1 DEF OwnArgument
  <2>. QED
    BY <2>1, <2>3, <2>4, <2>5, TableSame
<1>3. CASE End
  <2>1. /\ op' = "none" /\ i' = 0 /\ owed' = {} /\ dense' = TRUE /\ call = NoCall
        /\ UNCHANGED <<g_handlers, g_handler_count, call>>
    BY <1>3 DEF End, AtEnd
  <2>2. LogTypeOK'
    BY <2>1 DEF LogTypeOK
  <2>3. LoopInv' /\ OwnArgument'
    BY <2>1, TableSame DEF LoopInv, OwnArgument
  <2>. QED
    BY <2>1, <2>2, <2>3, TableSame
<1>. QED
  BY <1>1, <1>2, <1>3 DEF PrintBegin, FlushBegin

\* The inductive invariant of log.c.
THEOREM LogInvariant == LogSpec => []LogInv
<1>1. LogInit => LogInv
  <2>. SUFFICES ASSUME LogInit PROVE LogInv
    OBVIOUS
  <2>1. Used = {}
    BY DEF LogInit, Used
  <2>2. CountMatches
    BY <2>1, FS_EmptySet DEF LogInit, CountMatches
  <2>3. LogTypeOK
    BY LogAssumption DEF LogInit, LogTypeOK, Handler, Pointer, NoCall
  <2>4. SlotsOwned /\ LoopInv /\ OwnArgument
    BY <2>1 DEF LogInit, SlotsOwned, LoopInv, OwnArgument
  <2>. QED
    BY <2>2, <2>3, <2>4 DEF LogInv
<1>2. LogInv /\ [LogNext]_logVars => LogInv'
  <2>1. LogInv /\ UNCHANGED logVars => LogInv'
    BY TableSame DEF logVars, LogInv, LogTypeOK, LoopInv, OwnArgument
  <2>. QED
    BY <2>1, RegisterKeeps, UnregisterKeeps, RoundKeeps, BoundsKeep DEF LogNext
<1>. QED
  BY <1>1, <1>2, PTL DEF LogSpec

\* Slots, count and loop variable keep their types.
THEOREM LogTypeCorrect == LogSpec => []LogTypeOK
<1>1. LogInv => LogTypeOK
  BY DEF LogInv
<1>. QED
  BY <1>1, LogInvariant, PTL

\* The count is the number of used slots, for every size of the table.
THEOREM CountStaysTrue == LogSpec => []CountMatches
<1>1. LogInv => CountMatches
  BY DEF LogInv
<1>. QED
  BY <1>1, LogInvariant, PTL

\* A handler that stays registered gets every message of log_printf.
THEOREM PrintReachesAll == LogSpec => []PrintReaches
<1>1. LogInv => PrintReaches
  BY LogAssumption DEF LogInv, LogTypeOK, LoopInv, PrintReaches, AtEnd, Used, Index
<1>. QED
  BY <1>1, LogInvariant, PTL

\* The flush function of a handler that stays registered is called, while there
\* is no hole in the table.
THEOREM FlushReachesAll == LogSpec => []FlushReaches
<1>1. LogInv => FlushReaches
  BY LogAssumption DEF LogInv, LogTypeOK, LoopInv, FlushReaches, AtEnd, IsDense
<1>. QED
  BY <1>1, LogInvariant, PTL

\* Functions are called with the argument they were registered with, or, in a table
\* that has had a hole, are left-over flush functions called with a null argument.
THEOREM ArgumentsMatch == LogSpec => []OwnArgument
<1>1. LogInv => OwnArgument
  BY DEF LogInv
<1>. QED
  BY <1>1, LogInvariant, PTL
=============================================================================

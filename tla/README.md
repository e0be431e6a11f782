# Verification of the kprintf library

This directory models the PSP kernel module of `src/src/libkprintf` in TLA+,
checks the models with TLC and proves their main invariants with TLAPS.  File
names below are relative to `src/src/libkprintf` unless they start with `src/`.

## 1. Inventory

The module registers *the* Kprintf handler of the kernel.  Whoever prints with
`Kprintf` or `sceKernelPrintf` runs that handler **with interrupts disabled**; it
formats the message, appends it to a queue and sets an event flag.  An events
thread, **interrupts enabled**, waits for the flag and passes every queued message
to a table of sub-handlers that other modules register through an API.

| component | state | operations | talks to |
|---|---|---|---|
| message queue, `msg.c` | list `g_head`, blocks of the pool `g_vplid` | `new_msg`, `add_msg`, `remove_delete_msg`, `flush_messages` | called by the Kprintf handler (append) and the events thread (flush); no lock, interrupts are suspended around single updates |
| sub-handler table, `handler.c` | `g_handlers`, `g_handler_count`, `g_default_handler_index`, semaphore `g_semid` | `register_handler`, `register_default_handler`, `unregister_handler`, `invoke_handlers` | API callers; the events thread, which holds `g_semid` for a whole flush; callbacks of other modules |
| Kprintf handler, `handler.c` | none of its own | `kprintf_handler`, `install_kernel_handler` | kernel, queue, event flag |
| default handler, `handler.c` | none | `default_file_handler` | a callback like the others |
| events thread, `event.c` | its program counter, event flag `g_evid` | `event_thread`, `detect_psplink` | queue, table, start/stop thread |
| start and stop, `startup.c`, `globals.c` | `g_state`, the kernel objects | `init`, `_start`, `_stop` | kernel, events thread |
| API, `api.c` | none | `kprintf_*` | table, `install_kernel_handler` |
| callback helper, `src/libs/psp/util/cb.c` | user callback and argument, `g_sleeping`, ids of the thread and of the exit callback | `setup_callbacks`, `kill_callbacks`, the thread, the exit callback | the program, the kernel's exit request |
| log helper, `src/libs/psp/util/log.c` | `g_handlers`, `g_handler_count`, no lock | register, unregister, `log_printf`, `log_flush` | one thread and the handlers it calls |
| debug screen, `src/libs/psp/debug/scr.c`, `scrk.c` | `g_scr`: cursor, colours, flags, frame buffer | set up, print, clear, set position | one thread; a second kind of Kprintf handler |
| UMD, system, font, putchar, SDK headers and stubs, build files, demonstrations | – | – | no logic of the library |

What is hard here: the two sides of the queue run without a common lock, so every
step of the flush may be interrupted by an append; one event bit stands for any
number of messages; callbacks of strangers run while the semaphore is held; an
API call may race with a flush, with another call and with the module's stop; the
stop waits for an answer with a time-out; `init` can fail half-way; the pool
overflows; a wait can fail after the event that caused it was consumed; handlers edit
the message they are shown.  In the helpers: log handlers that change the table while it
is walked; a callback thread taken down before it is ready; a cursor that skips the one
column at which its line ends.

What makes each part correct:

- *queue*: all allocated blocks form one list; no freed block is followed;
  accepted messages come out once each and in order.
- *table*: the calls are atomic registry operations; count, default index and
  slots agree; results are true; no handler is removed while it runs; whoever holds
  the semaphore can go on; every call returns.
- *events thread*: no queued message is left without a flush to come.
- *start and stop*: kernel objects outlive their users; the request to stop is not
  lost among the flush events; an acknowledged stop leaves an empty queue and no registered
  handler, and a thread that does nothing more than return.
- *message buffer*: no write beyond the block, text terminated, lines on stdout.
- *log helper*: nobody who stays registered misses a message; every function gets its own
  argument.
- *callback helper*: nothing is left after a kill; an exit request reaches a thread
  that lives, and is served.
- *debug screen*: the cursor stays on the screen; new text never mixes with old text.

## 2. Modules

| module | what it is |
|---|---|
| `MsgFifo` | abstract queue: accept, deliver, finish |
| `MsgList` | `msg.c` with pointers, one shared access of `flush_messages` a step; refines `MsgFifo` |
| `HandlerRegistry` | abstract registry: atomic add and remove between messages, each message shown to a fixed set of handlers in index order |
| `HandlerTable` | the table, its semaphore, the API calls and `invoke_handlers`; refines `HandlerRegistry` |
| `KprintfService` | abstract library as registered handlers see it: the queue and the registry together |
| `KprintfPort` | abstract library as printers and the loader see it: the queue with a life cycle |
| `Kprintf` | the library: extends `MsgList` and `HandlerTable` and adds `init`, `_stop`, `event_thread`, `kprintf_handler`, `kprintf_install`; refines `KprintfService` and `KprintfPort` |
| `MsgBuffer` | the lengths, sizes and the terminator of one message, from `kprintf_handler` to the default handler |
| `LogHandlers` | `log.c`: the handler table and its two loops |
| `Callbacks` | `cb.c`: program, callback threads and exit request |
| `DebugScreen` | `scr.c`: cursor and character cells |
| `MC*` | what TLC runs: each extends one of the above, whose assumptions TLC evaluates there |
| `*Proofs`, `KprintfStopProofs` | the proofs (section 4) |

### MsgList

`Addr` is the pool, `used` its allocated blocks, `next` and `body` the fields of a
block.  Text, length and origin of a message are one value of `Body`; the queue does not
look at them.  `Enqueue` is `new_msg` and `add_msg` in one step because the
handler runs with interrupts disabled.  The allocator may hand out any free block
and may refuse at any time; a refusal changes nothing, so it is no step.  `add_msg`
walks from `g_head` to the block whose `next` is NULL: `Linked` is the set of blocks
such a walk visits, defined as the least set closed under `next`, so that it means
something for a list that a wrong program has tied into a ring.
`flush_messages` is cut where interrupts can come: `FlushBegin` (line 85),
`FlushInvoked` (89), `FlushReadNext` (90), `FlushCheckHead` (the test in
`remove_delete_msg` made before interrupts are suspended), `FlushRemove` (search, unlink
and free, one step) and `FlushAdvance` (92).

### HandlerTable

A thread's call is a program counter `pc[t]` with the call's locals `req`, `index`
and `ret`.  Every write to the table is a step: default index, `cb`, `arg` with the count.
`g_semid` is its count, 0 or 1.  A call that is refused before the semaphore is reached
(module not started, NULL callback) changes nothing and is no step; the refusals
after it are `RegisterRefused` and `UnregisterRefused`.  `invoke_handlers` reads `cb`
for its test (`InvokeTest`) and reads the slot again for the call (`InvokeCall`).
`CallbackApi` lets handlers call the API; `SemaMayFail` lets a wait for the
semaphore end with an error.

### Kprintf

`spc` follows the start/stop thread through `init` (each creation, the start of the
thread, the installation and the final assignment of `g_state`, each of the first
three kinds able to fail, followed by the clean-up one object at a time) and through
`_stop` (message, unregister, state, event, wait).  `evpc` follows `event_thread`; its calls of
`register_handler` and `flush_messages` are the actions of the two extended modules.
`khandler` is the handler the kernel has.  `OtherModules` allows other modules to
install their handler over ours and to call `kprintf_install`.  `ModuleStops` allows a stop.

`KprintfService` extends `MsgFifo` and `HandlerRegistry` and says how they go together, which neither
component says: a message is shown to the registry once (`shown`), between its turn and its removal,
and the registry changes only while no message is in hand.  `Queued`, `Current`, `ViewTable`, `ViewLeft`,
`Inside` and `ShownNow` are the mapping.

`KprintfPort` is `MsgFifo` with a `phase` and the loader's knowledge of its request to `stop`.
Its `missed` says that the last look at the queue found it locked.
The mapping reads the phase off `g_state`, except that a failed `init` is *failed* and that
an events thread which has sent its answer is *finished*; `missed` off the flush event that a
failed last wait leaves behind; and `stop` off the place where `_stop` is:

| library | port |
|---|---|
| `g_state` becomes `STARTED` at the end of `init`; `init` fails | `Open`; `Fail`, with an empty queue |
| `kprintf_handler` queues a message | `PortAccepts`, only while open |
| the flush moves to the first message, frees it | `PortPasses`, while open or closed, never after `Miss` |
| `_stop` writes `g_state` | `Close` |
| the wait for the semaphore fails in the round that ends the loop | `Miss`, only if waits may fail (`MayFail`) |
| the thread sets `EV_STOP_OK` | `WorkEnds`, with nothing in hand and an empty queue, or after `Miss` |
| `_stop`'s wait succeeds, or times out | `Answer`, only after `WorkEnds`; `GiveUp`, at any time after `Close` |

All other steps of the library are not seen.  In particular the return of the thread is not:
`EvTerminate` sets `EV_STOP_OK` (`event.c:114`) and `EvReturn` returns (`event.c:115`), and `_stop` may be
answered, and the module unloaded, between the two.

### MsgBuffer

The queue's `Body` opened up: `len` and `size` with their 16-bit width, the position of
the NUL, whether the text ends in a newline, and the highest index of `msg[]` written so
far.  A message passes `KprintfHandler` (format, refuse what is empty or does not fit
`KPRINTF_BUFSZ`), then one slot of the table a step: `SkipFree`, `UserLooks`, `UserEdits` or
`DefaultHandler`.  Handlers of other modules are external: they leave any text that fits, with its
NUL, the `size` they are told, as `kprintf.h:29-31` allows them.  A handler that empties the text makes
`default_file_handler` look at `msg[-1]`, the high byte of the field `size`: `EndsInNewline`
says what it finds there.

### LogHandlers

`Register` and `Unregister` are whole calls: one thread uses the table without a lock.
What makes the module hard is that the loops call handlers which may make those calls, so
the loops of `log_printf` and `log_flush` are cut at the calls (`PrintStep`, `FlushStep`,
`Returns`, `End`).  A client stands for a callback with its argument and its optional flush
function.  Two ghosts: `owed`, the slots in use since the loop began and not called yet,
and `dense`, whether the table has had no hole since then.

### Callbacks

`pc` is the program in `setup_callbacks` and `kill_callbacks`, `thread[t]` the thread of the
t-th set-up, from its creation through `create_callbacks` to its sleep and to
`exit_callback`.  Each static is written in a step of its own.  The kernel objects
(`cbs`, `kexit`, `notify`) are external: a callback can be notified once it is the
registered one and exists, and runs only on its own thread while that sleeps.

### DebugScreen

A frame buffer is the set of its character cells that show something.  `InitEx`,
`SetXY`, `UseFlag`, `SetBase` and `Clear` are the calls; `Return`, `LineFeed`, `Tab` and `Char`
are the cases of `scr_printdata`, one character a step, with the drawing and
`scr_clearline` in them.  The ghosts say that the cursor has only moved right since its
line was cleared (`fresh`) and that a tab went over the right edge (`jumped`).

## 3. Runs

| run | constants | question |
|---|---|---|
| `msg_list` | 3 blocks, 2 contents | list shape, no use after free, refinement of the queue with its liveness |
| `handler_table` | 2 clients and the events thread, 2 slots, 1 callback with 2 arguments and the default one, failing waits | consistency, results, running handlers, the holder of the semaphore can go on, refinement of the registry, every call returns |
| `handler_reentry` | 1 client, 1 slot, calls from handlers | *violated*: a handler that calls the API never gets its answer |
| `kprintf` | 1 client, 2 slots, 3 blocks, failing waits, calls from handlers, stops | no lost wake-up, no lost request to stop, drained and final stop, objects outlive their users, refinement of the port |
| `kprintf_delivery` | 1 client, 2 slots, 2 blocks, 2 contents, other modules, no stop | the whole library refines the queue, liveness included, and the service that handlers see |
| `stop_install` | other modules | *violated*: `kprintf_install` during `_stop` |
| `stop_early` | – | *violated*: the thread never answers |
| `msg_buffer` | 3 slots, `KPRINTF_BUFSZ` 3, newline option on | which one write can go beyond the block, text terminated, complete lines on stdout |
| `msg_overrun` | 2 slots, `KPRINTF_BUFSZ` 3, newline option on | *violated*: a write beyond the block |
| `log_handlers` | 3 slots, 2 clients | count, nobody missed by print or flush, own arguments or a null one in a hole, loops end |
| `callbacks` | 3 set-ups | clean kill, callback with its own argument, exit request heard and served, kill returns |
| `debug_screen` | 5 x 2 cells, 1 frame buffer | cursor on the screen, rest of a cleared line blank |

Bounds.  Three blocks give a block in front of, at and behind the flushed one, and
with two the pool already overflows and the stale `n == NULL` happens (one message being
flushed, one appended behind it).  Two slots give a full table, a hole in front of a
used slot and a default handler at index 0 and at index 1.  Two clients and the
events thread give every pair of competitors for the semaphore and a third one in waiting.
In `msg_buffer` three slots put an editing handler in front of and behind the default
handler; texts of -1 to `KPRINTF_BUFSZ` + 1 characters cover both sides of every test.  In
`log_handlers` three slots give a hole with a used slot on each side.  In
`debug_screen` a tab of four crosses the edge of a line of five, and two lines make the
text come round to the top.

Two bounds stand in guards.  `MaxSetups` ends the program of `Callbacks`: the second set-up
finds `g_sleeping` still set, and the third finds what the second left.  `MaxX` ends the run of
a cursor that has left the screen, at columns that still lie in the margin between the
screen's 480 pixels and the 512 pixels of a row in memory.

Deadlock checking is off where the system really may stop: in the `Kprintf` runs, whose
module has been stopped, with its thread ended or polling; in `callbacks`, whose program
may leave the game, may never kill its callbacks, or polls for a set-up that failed; and in
`handler_reentry`, which looks at the blocked state as a liveness question.

Fairness.  Threads that are ready run (the PSP scheduler is preemptive), delays end and
handlers return: weak fairness.  The semaphore is created with attribute 0, so its
waiters are served in order of arrival: strong fairness of taking it.  In
`HandlerTable` alone, `FlushRelease` is strongly fair, which says that printing pauses now and
then; without that, `flush_messages` may hold the semaphore forever (a hazard in
`PROJECT.json`).  In `LogHandlers` the loop's steps and the return of the called handler are
weakly fair, so a handler may change the table for a while but not forever.  In
`Callbacks` the program goes on with a call it has begun, and threads run.  Nobody is
obliged to print, to call the API, to stop the module or to leave the game.

### What the violated runs show

1. `handler_reentry` (`handler.c:60`, `src/README.md:40`).  "Re-entrant" does not hold for
   the register and unregister functions called from a sub-handler.
2. `stop_install` (`handler.c:190`, `startup.c:103`).  `kprintf_install` does not look at
   `g_state`, so the handler of a module about to be unloaded can be put back.
3. `stop_early` (`event.c:58`).  A stop before the thread saw `STATE_STARTED` leaves it polling
   forever, and `_stop` never gets its answer.
4. `msg_overrun` (`handler.c:109`, `kprintf.h:31`).  A handler that fills the buffer up to the
   size it is told leaves no room for the newline: `default_file_handler` writes its NUL one byte
   beyond the block.

### Known limits that the passing properties state as exceptions

- `_stop` does not look at the result of its 250 ms wait (`startup.c:114`); the start-up delay of
  the thread alone can take 9 s.  `StopDrained` is about an acknowledged stop.
- When the thread's last wait for the semaphore fails, it answers without a flush
  (`event.c:112`): the exception in `StopDrained`, and `Miss` in `KprintfPort`.  The `kprintf` run
  has failing waits, and a wait that failed earlier is no exception.
- The answer comes before the thread's return (`event.c:114-115`): `StopDrained` and `AnswerIsFinal` leave
  it that one step, and say that it has no other.
- `default_file_handler` does not look at the size (`handler.c:107-109`): `OverrunIsNewline` says that its
  newline behind another handler is the only write that can leave the block, and by one byte.
- `kprintf_install` puts the Kprintf handler back after `_stop` has removed it (`handler.c:200`), which
  `stop_install` shows.  Where no other module calls it, nothing registers the handler again, so
  `HandlerUnregistered` is not checked in the other runs.
- `log_unregister_handler` leaves the flush function, and `log_flush` runs over the count and
  not over the slots (`log.c:93`): `FlushReaches` is about a table without holes, and in one
  with holes a left-over flush function may be called with a null argument, the exception in
  `OwnArgument`.
- `g_sleeping` is never reset, so only the first `kill_callbacks` waits for the callback
  (`cb.c:50`): `KillCleans` promises no callback left for the first set-up only.
  `kill_callbacks` never returns when the first set-up failed (`cb.c:58`): `KillReturns` is about
  set-ups that started a thread.  Killed early, a later set-up can also leave a registered callback
  whose thread is gone: `ExitHeard` holds up to the second set-up.
- `HolderRuns` is about handlers that do not call the API: with `CallbackApi` the events
  thread can wait for the semaphore it holds, which is what `handler_reentry` shows.
- `scr_initex` clears before it copies the new settings (`src/libs/psp/debug/scr.c:242`), so with another frame
  buffer the old one is cleared, contrary to `scr.h:19`.  `InitEx` has it so; no property is about it.
- After a tab over the edge the cursor does not come back by itself (`scr.c:509`): the exception
  in `CursorOnScreen`.

## 4. Proofs

All are for every value of the constants (any pool, any number of slots, threads,
callbacks, columns, set-ups), under the named assumptions in the modules that declare the
constants, which TLC evaluates in the runs.

- `MsgListProofs`.  The inductive invariant `ListInv` says that *some* sequence of
  blocks is the list: chained by `next`, without repetition, exactly the allocated
  blocks, with `m` its first block and `n` its second block **or NULL**.  The
  existential is needed because no variable of the code holds the order; the "or NULL"
  is needed because of appends after `n` was read.  `EnqueueAppends` extends the sequence at
  the end, `RemoveTakesFirst` takes its tail.  From it follow `MsgTypeCorrect`, `MsgListShape` and
  `MsgNoUseAfterFree`.  `ListImplementsFifo` is the refinement of `MsgFifo`: the refinement
  mapping picks the list with CHOOSE, so it needs that the list is unique
  (`ChainsAgree`: two chains that differ do so at a least position, which `LeastNumber` gets
  from the well-foundedness of the numbers, and a chain determines what is there from
  what is before it); then an append is `Accept` (`EnqueueIsAccept`) and a step of the flush
  `Deliver`, `Finish` or not seen (`FlushStepPasses`).
- `HandlerTableProofs`.  The table is inconsistent in the middle of a call, so `TableInv` says what the
  one thread between wait and signal (`SemaInv`) has done to its slot (`OwnSlotInv`), that
  all other slots are in order (`SlotInv`) and how far the count lags (`CountInv`).  There is
  one lemma per action.  From it follow `TableTypeCorrect`, `TableStaysConsistent`,
  `ResultsCorrect` and `RunningStaysRegistered`.  `TableImplementsRegistry` is the
  refinement of `HandlerRegistry`, the whole of it, as the registry has no fairness: a
  registration takes effect when `arg` is written and a removal when `cb` is cleared
  (`CallTakesEffect`); the other half of each call is not seen (`HalfWritesUnseen`); and
  the loop of `invoke_handlers` is the registry's (`InvokeFollowsRegistry`).
  `HolderAlwaysRuns` shows that no way out of a call keeps the semaphore: each step that takes it makes
  its thread the holder, and each step of the holder either stays one or signals (`HeldStep`).
  Its hypothesis is `~CallbackApi`, under which the events thread has no call of its own
  (`EventsThreadCallsNothing`); without it the statement is false.
- `KprintfProofs`.  Every step of the library is a step of the list or leaves it alone
  (`KprintfUsesList`), and the table's action lemmas apply to the library's steps, so both
  components' invariants hold in the composed system, together with the order of `init`
  and its clean-up (`PhaseInv`).  From `KInv` follow `KTypeCorrect`, `KprintfNoUseAfterFree`,
  `KprintfTableConsistent`, `KprintfResultsHold`, `KprintfRunningRegistered` and
  `KprintfObjectsLive`, and both refinements carry over:
  `KprintfImplementsFifo` and `KprintfImplementsRegistry`.  `KprintfKeepsService` puts the two together, from
  Kprintf to the handlers: `ServiceInv` ties the flush's program counter to the loop over the handlers
  and to the semaphore, `FlushBySteps` and `InvokeBySteps` say which step of the code is which abstract
  step, and a call takes effect only with the semaphore, which the flush then does not have
  (`CallServed`).  For `KprintfHolderRuns`
  the events thread is a caller too, of `register_handler` before its loop; `EventsInv` says
  that it calls nothing else, so that it does not wait while it flushes.
- `KprintfStopProofs`.  `WakeInv` adds to `KInv` that a flush to come exists for every queued
  message (a pending event, or a flush whose `n` does not miss the tail of the list),
  and `StopInv` follows the terminate event from `_stop` to the answer: it travels with a last
  flush event, and nothing is queued after the state has changed.  From them follow
  `KprintfNoLostWakeup`, `KprintfStopDrained`, `KprintfStopRequestKept` and `KprintfAnswerIsFinal`; an events
  thread that is `Answered` has set `EV_STOP_OK` and may not have returned yet.  They all come together in `KprintfKeepsPort`, the
  refinement of `KprintfPort`: there is a lemma per kind of step (`PrintSeen`, `InitSeen`, `StopSeen`,
  `FlushSeen`, `TerminateSeen`, `SemaFailsSeen`, `EventSeen`, `OthersSeen`), the queue's part of each comes from the two lemmas of `MsgListProofs`,
  and the guards of the abstract actions are where the invariants are needed: that the port is open
  when a print finds `g_state` started is `PhaseInv` (`PhasesOfPort`), that `WorkEnds` leaves
  nothing behind, except after `Miss`, and that `Answer` follows it is `StopInv`.
- `MsgBufferProofs`.  `BufInv` gives handlers the `size` they are told, so indices up to
  `size - 1`, and one index more to the default handler.  It says that the last one is not used while the
  default handler is still to come (`DefaultPending`), and that until then a text is longer than
  it was printed only if another handler has run (`UserBefore`): without one, the `+ 1` of
  `KPRINTF_MSG_SIZE` is room enough for the newline.  From it follow `OverrunOnlyNewline`, `TextTerminated` and
  `StdoutGetsLines`.
- `LogHandlersProofs`.  `LogInv` says where the loop variable stands relative to the slots still
  owed, whatever the handlers did in between, and that the count is the number of used slots.
- `CallbacksProofs`.  `CbInv`: at most one thread lives (`OneThread`), user callback and argument
  agree outside the set-up's two writes (`PairInv`), and the first set-up's callback is
  stored before `g_sleeping` is set (`FirstInv`).  `HeardInv` adds that up to the second set-up
  the kernel knows only a callback whose thread has stored and registered it, and that a notified callback
  exists and has its thread asleep, on its way there or serving it; from it follows `ExitRequestHeard`.
- `DebugScreenProofs`.  `ScrInv`: with the cell-level facts about drawing (`DrawnFacts`), the rest
  of a fresh line stays blank, also on the line that the text comes round to.

Only model-checked, as liveness under fairness is out of the prover's reach: `CallsReturn`,
`LoopsEnd`, `KillReturns`, `ExitServed` and the fairness half of `FifoQueue`.  What each of them needs from
safety is proved: that the semaphore's holder can go on (`HolderRuns`), that every queued
message and every request to stop has an event or a thread to carry it (`NoLostWakeup`,
`StopRequestKept`), and that an exit request is with a thread that lives (`ExitHeard`).

## 5. Not modelled

- Formatting and the text of messages; their lengths are in `MsgBuffer`.
- User and kernel mode, the K1 register macros, thread priorities: the models allow more
  interleavings than a single CPU with priorities has.
- `sceKernelSignalSema` failing: it can only fail by exceeding the maximum count, which
  `TableTypeOK` excludes.
- What happens in memory of an unloaded module.
- Of the debug screen: colours, pixel formats and `vram_offset` (`clear_screen_32` moves by the
  whole offset and `drawchar_32` by a quarter of it, so the two disagree unless it is 0),
  `scr_putchar` called alone, and the buffer of `scrk.c`, which passes text on in pieces.
- UMD and system helpers, font, putchar stubs, demonstrations: no state or no logic.
- The SDK headers and stubs.  They are some 13000 of the repository's 15800 lines of
  code by count, declarations only; the C code of the library and its helpers is about 2000 lines, a
  third of that tables, constants and demonstrations.  The share of all lines that a
  model can stand for is therefore small, whatever is added.

## 6. Plan

1. *Done*: `MsgFifo`, `MsgList`, `HandlerRegistry`, `HandlerTable`, `Kprintf`, their runs,
   the component invariants and the theorems about the composed system.
2. *Done*: `MsgBuffer`, `LogHandlers`, `Callbacks`, `DebugScreen`, with their proofs.
3. *Done*: `NoLostWakeup`, `StopDrained` proved for the library, and both
   refinements, for the components and for the library.
4. *Done*: `KprintfPort` and `KprintfService` with their refinements, what the stop promises (`StopRequestKept`,
   `AnswerIsFinal`), the safety cores of the liveness properties, and the table's invariants
   in the whole library.
5. Left: the pixels of the debug screen (`vram_offset`, the two formats of a row) and the buffer
   of `scrk.c`.
